---- MODULE Spec2Model ----
(***************************************************************************)
(* Model of the tiling/scheduling engine of the RenderScript toolkit:      *)
(*   Task::setTiling, Task::processTile        (TaskProcessor.cpp 29-98)    *)
(*   TaskProcessor (thread pool, doTask, ...)  (TaskProcessor.cpp 100-217)  *)
(*   validRestriction and the Toolkit methods blend and yuvToRgb that       *)
(*   build a Task               (Utils.cpp 47-76, Blend.cpp, YuvToRgb.cpp)  *)
(* The per-operation pixel kernels (processData of the derived classes)    *)
(* are the callback; a callback is a call with its arguments and a return. *)
(***************************************************************************)
EXTENDS Integers, Sequences, FiniteSets, TLC

\* ------------------------------------------------------------------------
\* Bounds of the model (inputs are drawn from these ranges).
\* ------------------------------------------------------------------------
\* sizeX ranges over 1..MaxSmallX and the sizes of LargeSizesX.
MaxSmallX == 3
\* sizeY ranges over 1..MaxSmallY and the sizes of LargeSizesY.
MaxSmallY == 4

\* Widths around the smallest targets (250, 333, 500, 1000 cells), so that rows
\* are split in 1, 2 or 3 tiles, and the width of the spec's examples.
LargeSizesX == {100, 251, 501, 1001}
\* The heights of the spec's first and third examples.
LargeSizesY == {50, 100}
SizesX == (1..MaxSmallX) \cup LargeSizesX
SizesY == (1..MaxSmallY) \cup LargeSizesY
\* The grids <<sizeX, sizeY>>: the large heights go with the widths up to 100.
Grids == {g \in SizesX \X SizesY : g[2] <= MaxSmallY \/ g[1] <= 100}
\* Number of elements of a cell (TaskProcessor.h:58 "From 1-4").
VectorSizes == 1..4
\* targetTileSizeInBytes values given to setTiling: below, at and above the
\* floor, and the value startWork uses.
TargetSizes == {999, 1000, 2000, 16 * 1024}

\* The sizes given to a Toolkit method range over 0..MaxEntrySize and the
\* coordinates of its restriction over 0..MaxEntrySize + 1.
MaxEntrySize == 2

\* ------------------------------------------------------------------------
\* Utils.h, Utils.cpp
\* ------------------------------------------------------------------------
\* A plausible slip: one is added even when the division is exact.
divideRoundingUpAlways(a, b) == (a \div b) + 1

divideRoundingUp(a, b) == (a \div b) + (IF a % b = 0 THEN 0 ELSE 1)

Min(a, b) == IF a < b THEN a ELSE b
Max(a, b) == IF a > b THEN a ELSE b

\* ------------------------------------------------------------------------
\* struct Restriction and class Task
\* ------------------------------------------------------------------------
\* mRestriction == nullptr
NoRestriction == [startX |-> -1, endX |-> -1, startY |-> -1, endY |-> -1]

\* The restrictions a Task is built with for a sizeX x sizeY grid
\* (startX < endX <= sizeX and startY < endY <= sizeY), sampled: startX is 0, 1
\* or 10 and endX is 1, 2, 20, sizeX - 1 or sizeX; startY is 0 or 1 and endY is
\* 1, 2, 5, sizeY - 1 or sizeY.
RangesX(sizeX) ==
    {r \in ({0, 1, 10} \X {1, 2, 20, sizeX - 1, sizeX}) :
        r[1] < r[2] /\ r[2] <= sizeX}
RangesY(sizeY) ==
    {r \in ({0, 1} \X {1, 2, 5, sizeY - 1, sizeY}) :
        r[1] < r[2] /\ r[2] <= sizeY}
Restrictions(sizeX, sizeY) ==
    {[startX |-> rx[1], endX |-> rx[2], startY |-> ry[1], endY |-> ry[2]] :
        rx \in RangesX(sizeX), ry \in RangesY(sizeY)}

\* validRestriction (Utils.cpp): the sizes and coordinates are size_t, so none
\* is negative. The test on Y joins its two comparisons with && where the
\* test on X has ||.
validRestriction(sizeX, sizeY, restriction) ==
    IF restriction = NoRestriction THEN TRUE
    ELSE IF restriction.startX >= sizeX \/ restriction.endX > sizeX THEN FALSE
    ELSE IF restriction.startY >= sizeY /\ restriction.endY > sizeY THEN FALSE
    ELSE IF restriction.startX >= restriction.endX THEN FALSE
    ELSE IF restriction.startY >= restriction.endY THEN FALSE
    ELSE TRUE

\* Task::Task: the object after construction (tiling fields are 0).
NewTask(sizeX, sizeY, vectorSize, prefersDataAsOneRow, restriction) ==
    [mSizeX |-> sizeX, mSizeY |-> sizeY, mVectorSize |-> vectorSize,
     mPrefersDataAsOneRow |-> prefersDataAsOneRow, mUsesSimd |-> FALSE,
     mRestriction |-> restriction,
     mCellsPerTileX |-> 0, mCellsPerTileY |-> 0,
     mTilesPerRow |-> 0, mTilesPerColumn |-> 0]

\* A plausible slip: the setter leaves the field as constructed.
setUsesSimdIgnored(t, uses) == t

\* Task::setUsesSimd
setUsesSimd(t, uses) == [t EXCEPT !.mUsesSimd = uses]

\* The floor std::max(1000u, targetTileSizeInBytes) of setTiling.
MinTargetTileSize == 1000

\* A plausible slip: the floor of 1000 bytes forgotten.
TargetCellsPerTileNoFloor(t, targetTileSizeInBytes) ==
    targetTileSizeInBytes \div t.mVectorSize

\* targetCellsPerTile of setTiling.
TargetCellsPerTile(t, targetTileSizeInBytes) ==
    Max(MinTargetTileSize, targetTileSizeInBytes) \div t.mVectorSize

\* cellsToProcessX / cellsToProcessY of setTiling.
CellsToProcessX(t) ==
    IF t.mRestriction = NoRestriction THEN t.mSizeX
    ELSE t.mRestriction.endX - t.mRestriction.startX
CellsToProcessY(t) ==
    IF t.mRestriction = NoRestriction THEN t.mSizeY
    ELSE t.mRestriction.endY - t.mRestriction.startY

\* A plausible slip: the number of tiles per column rounded down.
SetTilingFloorY(t, targetTileSizeInBytes) ==
    LET targetCellsPerTile == TargetCellsPerTile(t, targetTileSizeInBytes)
        tilesPerRow == divideRoundingUp(CellsToProcessX(t), targetCellsPerTile)
        cellsPerTileX == divideRoundingUp(CellsToProcessX(t), tilesPerRow)
        targetRowsPerTile == divideRoundingUp(targetCellsPerTile, cellsPerTileX)
        tilesPerColumn == Max(1, CellsToProcessY(t) \div targetRowsPerTile)
        cellsPerTileY == divideRoundingUp(CellsToProcessY(t), tilesPerColumn)
    IN  [t EXCEPT !.mTilesPerRow = tilesPerRow, !.mCellsPerTileX = cellsPerTileX,
                  !.mTilesPerColumn = tilesPerColumn, !.mCellsPerTileY = cellsPerTileY]

\* Task::setTiling: the task with its tiling fields set.
SetTiling(t, targetTileSizeInBytes) ==
    LET targetCellsPerTile == TargetCellsPerTile(t, targetTileSizeInBytes)
        tilesPerRow == divideRoundingUp(CellsToProcessX(t), targetCellsPerTile)
        cellsPerTileX == divideRoundingUp(CellsToProcessX(t), tilesPerRow)
        targetRowsPerTile == divideRoundingUp(targetCellsPerTile, cellsPerTileX)
        tilesPerColumn == divideRoundingUp(CellsToProcessY(t), targetRowsPerTile)
        cellsPerTileY == divideRoundingUp(CellsToProcessY(t), tilesPerColumn)
    IN  [t EXCEPT !.mTilesPerRow = tilesPerRow, !.mCellsPerTileX = cellsPerTileX,
                  !.mTilesPerColumn = tilesPerColumn, !.mCellsPerTileY = cellsPerTileY]

\* A plausible slip: the two tile counts added instead of multiplied.
TileCountSum(t) == t.mTilesPerRow + t.mTilesPerColumn

\* Task::setTiling divides by zero: by mVectorSize, by tilesPerRow (no cell
\* to process in X), or by tilesPerColumn (no cell to process in Y).
SetTilingDividesByZero(t, targetTileSizeInBytes) ==
    \/ t.mVectorSize = 0
    \/ TargetCellsPerTile(t, targetTileSizeInBytes) = 0
    \/ divideRoundingUp(CellsToProcessX(t),
                        TargetCellsPerTile(t, targetTileSizeInBytes)) = 0
    \/ CellsToProcessY(t) = 0

\* The value Task::setTiling returns, from the fields it has set.
TileCount(t) == t.mTilesPerRow * t.mTilesPerColumn

\* startWorkX, startWorkY, endWorkX, endWorkY of processTile.
WorkRect(t) ==
    IF t.mRestriction = NoRestriction
    THEN [startX |-> 0, startY |-> 0, endX |-> t.mSizeX, endY |-> t.mSizeY]
    ELSE [startX |-> t.mRestriction.startX, startY |-> t.mRestriction.startY,
          endX |-> t.mRestriction.endX, endY |-> t.mRestriction.endY]

\* A plausible slip: the last tile of a row or column is not clipped.
TileRectNoClip(t, tileIndex) ==
    LET w == WorkRect(t)
        tileIndexY == tileIndex \div t.mTilesPerRow
        tileIndexX == tileIndex % t.mTilesPerRow
        startCellX == w.startX + tileIndexX * t.mCellsPerTileX
        startCellY == w.startY + tileIndexY * t.mCellsPerTileY
    IN  [startX |-> startCellX, startY |-> startCellY,
         endX |-> startCellX + t.mCellsPerTileX,
         endY |-> startCellY + t.mCellsPerTileY]

\* A plausible slip: the row and the column of the tile are exchanged.
TileRectSwappedIndex(t, tileIndex) ==
    LET w == WorkRect(t)
        tileIndexY == tileIndex % t.mTilesPerRow
        tileIndexX == tileIndex \div t.mTilesPerRow
        startCellX == w.startX + tileIndexX * t.mCellsPerTileX
        startCellY == w.startY + tileIndexY * t.mCellsPerTileY
    IN  [startX |-> startCellX, startY |-> startCellY,
         endX |-> Min(startCellX + t.mCellsPerTileX, w.endX),
         endY |-> Min(startCellY + t.mCellsPerTileY, w.endY)]

\* startCellX, startCellY, endCellX, endCellY of processTile.
TileRect(t, tileIndex) ==
    LET w == WorkRect(t)
        tileIndexY == tileIndex \div t.mTilesPerRow
        tileIndexX == tileIndex % t.mTilesPerRow
        startCellX == w.startX + tileIndexX * t.mCellsPerTileX
        startCellY == w.startY + tileIndexY * t.mCellsPerTileY
    IN  [startX |-> startCellX, startY |-> startCellY,
         endX |-> Min(startCellX + t.mCellsPerTileX, w.endX),
         endY |-> Min(startCellY + t.mCellsPerTileY, w.endY)]

\* A plausible slip: the collapse does not test the right edge of the tile.
CollapsesLeftEdgeOnly(t, r) ==
    t.mPrefersDataAsOneRow /\ r.startX = 0

\* The test of processTile for the one-row call, on the tile's rectangle r.
Collapses(t, r) ==
    t.mPrefersDataAsOneRow /\ r.startX = 0 /\ r.endX = t.mSizeX

\* Task::processTile: the arguments of the processData call it makes.
ProcessTile(t, threadIndex, tileIndex) ==
    LET r == TileRect(t, tileIndex)
    IN  IF Collapses(t, r)
        THEN [threadIndex |-> threadIndex, startX |-> 0, startY |-> r.startY,
              endX |-> t.mSizeX * (r.endY - r.startY), endY |-> r.startY + 1]
        ELSE [threadIndex |-> threadIndex, startX |-> r.startX, startY |-> r.startY,
              endX |-> r.endX, endY |-> r.endY]

\* ------------------------------------------------------------------------
\* State
\* ------------------------------------------------------------------------
\* Bounds of the scheduler model.
\* The constructor's numThreads argument ranges over 1..MaxThreads.
MaxThreads == 2
\* External threads that call doTask.
NumCallers == 2
\* doTask calls the external threads make in all.
MaxCalls == 2
\* The tasks given to doTask have 1..MaxTaskTiles tiles.
MaxTaskTiles == 2

\* Thread identities: the pool threads (loop variable i of the constructor),
\* the external threads that call doTask, the thread that runs the destructor.
PoolThreads == {"pool"} \X (0..(MaxThreads - 2))
Callers == {"caller"} \X (1..NumCallers)
Destroyer == <<"dtor", 0>>
Threads == PoolThreads \cup Callers \cup {Destroyer}
\* No owner of a mutex.
NoThread == <<"none", 0>>
\* mCurrentTask == nullptr. A task is named by its caller and that caller's
\* call number.
NoTask == <<NoThread, 0>>
\* No processData call.
NoCall == [threadIndex |-> -1, startX |-> -1, startY |-> -1, endX |-> -1, endY |-> -1]

VARIABLES
    \* the argument of the constructor
    numThreads,            \* unsigned int numThreads
    \* per caller: calls of task->setUsesSimd made by its doTask call
    setUsesSimdCalls,
    \* class TaskProcessor
    mUsesSimd,             \* const bool mUsesSimd
    mNumberOfPoolThreads,  \* const unsigned int mNumberOfPoolThreads
    mTaskMutex,            \* owner of std::mutex mTaskMutex
    mQueueMutex,           \* owner of std::mutex mQueueMutex
    mCurrentTask,          \* Task* mCurrentTask
    mStopThreads,          \* bool mStopThreads
    mWorkAvailableOrStop,  \* threads blocked in mWorkAvailableOrStop.wait
    mWorkIsFinished,       \* threads blocked in mWorkIsFinished.wait
    mTilesNotYetStarted,   \* int mTilesNotYetStarted
    mTilesInProcess,       \* int mTilesInProcess
    \* the threads
    pc,                    \* where each thread is in the code
    myTile,                \* local myTile of processTilesOfWork
    joinIndex,             \* the destructor's position in mPoolThreads
    \* the callers' Task objects and what happened to them
    tasks,                 \* the Task each caller has constructed
    calls,                 \* doTask calls each caller has completed
    cb,                    \* the callback each thread is executing, if any
    started,               \* per caller: processTile invocations per tile index
    returned,              \* per caller: processTile returns per tile index
    \* a Task on its own (setTiling and processTile called in sequence)
    tTask,                 \* the Task
    tTarget,               \* the targetTileSizeInBytes given to setTiling
    tpc,                   \* "constructed", "tiled", "called"
    tTile,                 \* the tile index last given to processTile
    tCall,                 \* the processData call processTile last made
    \* a call of a Toolkit method
    entry,                 \* the method and its arguments
    \* a TaskProcessor under construction
    ctorNumThreads,        \* the argument numThreads
    hardwareConcurrency,   \* what std::thread::hardware_concurrency() returns
    cpuSupportsSimd,       \* what cpuSupportsSimd() returns
    ctorUsesSimd,          \* mUsesSimd of the object under construction
    ctorNumberOfPoolThreads, \* its mNumberOfPoolThreads
    mPoolThreads,          \* its mPoolThreads: the arguments bound to each thread
    ctorPc,                \* "none", "initializers", "body", "constructed"
    \* a call of paddedSize
    paddedSizeArg,         \* the argument size
    paddedSizeResult       \* the value returned, NotReturned before the return

procVars == <<numThreads, setUsesSimdCalls, mUsesSimd, mNumberOfPoolThreads,
              mTaskMutex, mQueueMutex, mCurrentTask,
              mStopThreads, mWorkAvailableOrStop, mWorkIsFinished,
              mTilesNotYetStarted, mTilesInProcess, pc, myTile, joinIndex,
              tasks, calls, cb, started, returned>>
utilVars == <<ctorNumThreads, hardwareConcurrency, cpuSupportsSimd, ctorUsesSimd,
              ctorNumberOfPoolThreads, mPoolThreads, ctorPc,
              paddedSizeArg, paddedSizeResult>>
tileVars == <<tTask, tTarget, tpc, tTile, tCall, entry, utilVars>>
vars == <<procVars, tileVars>>

\* The Task of a caller that has none (not constructed yet, or destroyed).
NoTaskObject == NewTask(0, 0, 0, FALSE, NoRestriction)

\* A callback that is not running.
NoCallback == [task |-> NoTask, tile |-> -1, call |-> NoCall]

\* A plausible slip: as many pool threads as numThreads.
PoolThreadCountAll(n) == n

\* The initializer of mNumberOfPoolThreads for numThreads >= 1.
PoolThreadCount(n) == n - 1

\* TaskProcessor::TaskProcessor(n) with n >= 1, on a processor that supports
\* SIMD or not: the loop over i < mNumberOfPoolThreads starts the pool threads
\* at processTilesOfWork. No caller has constructed a Task yet.
ProcInit(n, simd) ==
    /\ numThreads = n
    /\ setUsesSimdCalls = [c \in Callers |-> 0]
    /\ mUsesSimd = simd
    /\ mNumberOfPoolThreads = PoolThreadCount(n)
    /\ mTaskMutex = NoThread
    /\ mQueueMutex = NoThread
    /\ mCurrentTask = NoTask
    /\ mStopThreads = FALSE
    /\ mWorkAvailableOrStop = {}
    /\ mWorkIsFinished = {}
    /\ mTilesNotYetStarted = 0
    /\ mTilesInProcess = 0
    /\ pc = [t \in Threads |->
               IF t \in PoolThreads
               THEN (IF t[2] < PoolThreadCount(n) THEN "ptw_lock" ELSE "none")
               ELSE IF t \in Callers THEN "idle" ELSE "d_idle"]
    /\ myTile = [t \in Threads |-> -1]
    /\ joinIndex = 0
    /\ tasks = [c \in Callers |-> NoTaskObject]
    /\ calls = [c \in Callers |-> 0]
    /\ cb = [t \in Threads |-> NoCallback]
    /\ started = [c \in Callers |-> [i \in 0..(-1) |-> 0]]
    /\ returned = [c \in Callers |-> [i \in 0..(-1) |-> 0]]

\* No call of a Toolkit method.
NoEntry == [method |-> "none", sizeX |-> 0, sizeY |-> 0, vectorSize |-> 0,
            radius |-> 0, restriction |-> NoRestriction]

\* A member the initializer list has not reached yet.
NotInitialized == -1
\* paddedSize has not returned yet.
NotReturned == -1

\* No TaskProcessor under construction.
ConstructorIdle ==
    /\ ctorNumThreads = 0
    /\ hardwareConcurrency = 0
    /\ cpuSupportsSimd = FALSE
    /\ ctorUsesSimd = FALSE
    /\ ctorNumberOfPoolThreads = NotInitialized
    /\ mPoolThreads = <<>>
    /\ ctorPc = "none"

\* No call of paddedSize.
PaddedSizeIdle ==
    /\ paddedSizeArg = 0
    /\ paddedSizeResult = NotReturned

UtilIdle == ConstructorIdle /\ PaddedSizeIdle

\* No Task on its own.
TileIdle ==
    /\ entry = NoEntry
    /\ tTask = NoTaskObject
    /\ tTarget = 0
    /\ tpc = "none"
    /\ tTile = -1
    /\ tCall = NoCall

\* ------------------------------------------------------------------------
\* A Task on its own: construction, setTiling, processTile for each tile
\* ------------------------------------------------------------------------
\* The Task after its construction by a Toolkit method: any sampled geometry,
\* with or without a restriction.
TilingInit ==
    /\ ProcInit(1, FALSE)
    /\ \E grid \in Grids, vectorSize \in VectorSizes, prefers \in BOOLEAN :
          \E restriction \in {NoRestriction} \cup Restrictions(grid[1], grid[2]) :
             tTask = NewTask(grid[1], grid[2], vectorSize, prefers, restriction)
    /\ tTarget \in TargetSizes
    /\ UtilIdle
    /\ entry = NoEntry
    /\ tpc = "constructed"
    /\ tTile = -1
    /\ tCall = NoCall

\* task->setTiling(tTarget). An integer division by zero is undefined
\* behaviour: nothing is known of the Task after it.
TSetTiling ==
    /\ tpc = "constructed"
    /\ IF SetTilingDividesByZero(tTask, tTarget)
       THEN /\ tpc' = "undefined"
            /\ UNCHANGED tTask
       ELSE /\ tTask' = SetTiling(tTask, tTarget)
            /\ tpc' = "tiled"
    /\ UNCHANGED <<tTarget, tTile, tCall, entry, utilVars, procVars>>

\* task->processTile(0, tileIndex) for a tile index of the tiling. processTile
\* changes no field of the Task, so one call is followed per behaviour.
TProcessTile(tileIndex) ==
    /\ tpc = "tiled"
    /\ tpc' = "called"
    /\ tTile' = tileIndex
    /\ tCall' = ProcessTile(tTask, 0, tileIndex)
    /\ UNCHANGED <<tTask, tTarget, entry, utilVars, procVars>>

TilingNext ==
    \/ TSetTiling
    \/ \E tileIndex \in 0..(TileCount(tTask) - 1) : TProcessTile(tileIndex)

TilingSpec == TilingInit /\ [][TilingNext]_vars

\* ------------------------------------------------------------------------
\* A Toolkit method: validation, construction of the Task, setTiling
\* ------------------------------------------------------------------------
\* The arguments of a call: any sizes; for blend, histogram and blur any
\* restriction or none; for histogram and blur a vectorSize below, in and
\* above 1..4; for blur a radius below, in and above 1..25. blend and yuvToRgb
\* have no vectorSize argument (their cells have 4 bytes) and no radius.
EntryVectorSizes == 0..5
EntryRadii == {0, 1, 25, 26}
EntrySizes == 0..MaxEntrySize
EntryCoordinates == 0..(MaxEntrySize + 1)
EntryRestrictions ==
    {NoRestriction} \cup
    [startX : EntryCoordinates, endX : EntryCoordinates,
     startY : EntryCoordinates, endY : EntryCoordinates]
EntryCalls ==
    [method : {"blend"}, sizeX : EntrySizes, sizeY : EntrySizes,
     vectorSize : {4}, radius : {0}, restriction : EntryRestrictions] \cup
    [method : {"yuvToRgb"}, sizeX : EntrySizes, sizeY : EntrySizes,
     vectorSize : {4}, radius : {0}, restriction : {NoRestriction}] \cup
    [method : {"histogram"}, sizeX : EntrySizes, sizeY : EntrySizes,
     vectorSize : EntryVectorSizes, radius : {0}, restriction : EntryRestrictions] \cup
    [method : {"blur"}, sizeX : EntrySizes, sizeY : EntrySizes,
     vectorSize : EntryVectorSizes, radius : EntryRadii,
     restriction : EntryRestrictions]

\* The thread that calls the Toolkit method.
EntryCaller == <<"caller", 1>>

\* RenderScriptToolkit::blend, yuvToRgb, histogram or blur is entered.
ToolkitInit ==
    /\ ProcInit(1, FALSE)
    /\ UtilIdle
    /\ entry \in EntryCalls
    /\ tTask = NoTaskObject
    /\ tTarget = 16 * 1024    \* targetTileSize of startWork
    /\ tpc = "entry"
    /\ tTile = -1
    /\ tCall = NoCall

\* A plausible slip: the result of validRestriction is not acted on.
EntryAcceptsAll(e) == TRUE

\* The first check of the method before it builds its Task: blend, histogram
\* and blur call validRestriction, yuvToRgb checks nothing.
EntryAccepts(e) ==
    IF e.method \in {"blend", "histogram", "blur"}
    THEN validRestriction(e.sizeX, e.sizeY, e.restriction)
    ELSE TRUE

\* The checks that follow validRestriction: histogram returns when vectorSize
\* is below 1 or above 4; blur tests radius and vectorSize and logs an error,
\* and has no return there.
EntryArgumentsAccepted(e) ==
    IF e.method = "histogram" THEN ~(e.vectorSize < 1 \/ e.vectorSize > 4)
    ELSE TRUE

\* The Task the method builds: BlendTask and YuvToRgbTask have cells of 4
\* bytes, HistogramTask and BlurTask cells of vectorSize bytes; BlendTask and
\* HistogramTask prefer their data as one row.
EntryTask(e) ==
    IF e.method = "blend" THEN NewTask(e.sizeX, e.sizeY, 4, TRUE, e.restriction)
    ELSE IF e.method = "histogram"
    THEN NewTask(e.sizeX, e.sizeY, e.vectorSize, TRUE, e.restriction)
    ELSE IF e.method = "blur"
    THEN NewTask(e.sizeX, e.sizeY, e.vectorSize, FALSE, e.restriction)
    ELSE NewTask(e.sizeX, e.sizeY, 4, FALSE, NoRestriction)

\* if (!validRestriction(...)) return;
EntryReject ==
    /\ tpc = "entry"
    /\ ~EntryAccepts(entry)
    /\ tpc' = "rejected"
    /\ UNCHANGED <<tTask, tTarget, tTile, tCall, entry, utilVars, procVars>>

\* histogram: if (vectorSize < 1 || vectorSize > 4) { ALOGE(...); return; }
EntryRejectArgument ==
    /\ tpc = "entry"
    /\ EntryAccepts(entry)
    /\ ~EntryArgumentsAccepted(entry)
    /\ tpc' = "rejected_argument"
    /\ UNCHANGED <<tTask, tTarget, tTile, tCall, entry, utilVars, procVars>>

\* The Task is constructed and processor->doTask(&task) is called: doTask
\* takes mTaskMutex, calls setUsesSimd and sets mCurrentTask; startWork then
\* calls setTiling (TSetTiling). The distribution of the tiles that follows
\* is that of Spec.
EntryConstruct ==
    /\ tpc = "entry"
    /\ EntryAccepts(entry)
    /\ EntryArgumentsAccepted(entry)
    /\ mTaskMutex = NoThread
    /\ tTask' = setUsesSimd(EntryTask(entry), mUsesSimd)
    /\ mTaskMutex' = EntryCaller
    /\ mCurrentTask' = <<EntryCaller, 1>>
    /\ tpc' = "constructed"
    /\ UNCHANGED <<tTarget, tTile, tCall, entry, utilVars,
                   numThreads, setUsesSimdCalls, mUsesSimd, mNumberOfPoolThreads,
                   mQueueMutex, mStopThreads, mWorkAvailableOrStop, mWorkIsFinished,
                   mTilesNotYetStarted, mTilesInProcess, pc, myTile, joinIndex,
                   tasks, calls, cb, started, returned>>

ToolkitNext ==
    \/ EntryReject
    \/ EntryRejectArgument
    \/ EntryConstruct
    \/ TSetTiling

ToolkitSpec == ToolkitInit /\ [][ToolkitNext]_vars

\* ------------------------------------------------------------------------
\* paddedSize of Utils.h
\* ------------------------------------------------------------------------
\* The sizes given to paddedSize range over 0..MaxPaddedSize.
MaxPaddedSize == 63
PaddedSizes == 0..MaxPaddedSize

\* A plausible slip: no padding of the 3-byte cell.
paddedSizeIdentity(size) == size

\* return size == 3 ? 4 : size;
paddedSize(size) == IF size = 3 THEN 4 ELSE size

\* paddedSize is about to be called with a size.
PaddedSizeInit ==
    /\ ProcInit(1, FALSE)
    /\ TileIdle
    /\ ConstructorIdle
    /\ paddedSizeArg \in PaddedSizes
    /\ paddedSizeResult = NotReturned

\* The call returns.
PaddedSizeReturn ==
    /\ paddedSizeResult = NotReturned
    /\ paddedSizeResult' = paddedSize(paddedSizeArg)
    /\ UNCHANGED <<paddedSizeArg, ctorNumThreads, hardwareConcurrency, cpuSupportsSimd,
                   ctorUsesSimd, ctorNumberOfPoolThreads, mPoolThreads, ctorPc,
                   tTask, tTarget, tpc, tTile, tCall, entry, procVars>>

PaddedSizeNext == PaddedSizeReturn

PaddedSizeSpec == PaddedSizeInit /\ [][PaddedSizeNext]_vars

\* ------------------------------------------------------------------------
\* TaskProcessor::TaskProcessor
\* ------------------------------------------------------------------------
\* The constructor is given numThreads in 0..MaxRequestedThreads.
MaxRequestedThreads == 3
RequestedThreads == 0..MaxRequestedThreads
\* Values of std::thread::hardware_concurrency(): 0 when it is not known.
HardwareConcurrencies == {0, 1, 2, 3, 6, 7, 8, 9, 64, 65536, 2147483647}

\* unsigned int has 32 bits. A value is kept as its two 16-bit halves.
HalfWord == 65536
ToUnsigned(n) == [hi |-> n \div HalfWord, lo |-> n % HalfWord]
ToInteger(u) == u.hi * HalfWord + u.lo
\* u - 1 in unsigned int: 0 - 1 is the largest unsigned int.
UnsignedMinusOne(u) ==
    IF u.lo > 0 THEN [hi |-> u.hi, lo |-> u.lo - 1]
    ELSE [hi |-> (u.hi - 1) % HalfWord, lo |-> HalfWord - 1]
UnsignedLess(a, b) == a.hi < b.hi \/ (a.hi = b.hi /\ a.lo < b.lo)
\* std::min(a, b) on unsigned int.
UnsignedMin(a, b) == IF UnsignedLess(b, a) THEN b ELSE a

\* A plausible slip: the subtraction made in signed arithmetic.
NumberOfPoolThreadsSigned(n, concurrency) ==
    IF n # 0 THEN n - 1 ELSE Min(6, concurrency - 1)

\* numThreads ? numThreads - 1 : std::min(6u, hardware_concurrency() - 1)
NumberOfPoolThreads(n, concurrency) ==
    ToInteger(IF n # 0
              THEN UnsignedMinusOne(ToUnsigned(n))
              ELSE UnsignedMin(ToUnsigned(6), UnsignedMinusOne(ToUnsigned(concurrency))))

\* The constructor is entered: its argument, and what the platform will
\* answer to hardware_concurrency() and cpuSupportsSimd().
ConstructorInit ==
    /\ ProcInit(1, FALSE)
    /\ TileIdle
    /\ PaddedSizeIdle
    /\ ctorNumThreads \in RequestedThreads
    /\ hardwareConcurrency \in HardwareConcurrencies
    /\ cpuSupportsSimd \in BOOLEAN
    /\ ctorUsesSimd = FALSE
    /\ ctorNumberOfPoolThreads = NotInitialized
    /\ mPoolThreads = <<>>
    /\ ctorPc = "initializers"

\* The member initializer list.
ConstructorInitializers ==
    /\ ctorPc = "initializers"
    /\ ctorUsesSimd' = cpuSupportsSimd
    /\ ctorNumberOfPoolThreads' = NumberOfPoolThreads(ctorNumThreads, hardwareConcurrency)
    /\ ctorPc' = "body"
    /\ UNCHANGED <<ctorNumThreads, hardwareConcurrency, cpuSupportsSimd, mPoolThreads,
                   paddedSizeArg, paddedSizeResult,
                   tTask, tTarget, tpc, tTile, tCall, entry, procVars>>

\* One turn of the loop: mPoolThreads.emplace_back(std::bind(
\* &TaskProcessor::processTilesOfWork, this, i + 1, false)).
ConstructorSpawn ==
    /\ ctorPc = "body"
    /\ Len(mPoolThreads) < ctorNumberOfPoolThreads
    /\ mPoolThreads' = Append(mPoolThreads,
                              [threadIndex |-> Len(mPoolThreads) + 1,
                               returnWhenNoWork |-> FALSE])
    /\ UNCHANGED <<ctorNumThreads, hardwareConcurrency, cpuSupportsSimd, ctorUsesSimd,
                   ctorNumberOfPoolThreads, ctorPc, paddedSizeArg, paddedSizeResult,
                   tTask, tTarget, tpc, tTile, tCall, entry, procVars>>

\* The loop ends and the constructor returns.
ConstructorReturn ==
    /\ ctorPc = "body"
    /\ ~(Len(mPoolThreads) < ctorNumberOfPoolThreads)
    /\ ctorPc' = "constructed"
    /\ UNCHANGED <<ctorNumThreads, hardwareConcurrency, cpuSupportsSimd, ctorUsesSimd,
                   ctorNumberOfPoolThreads, mPoolThreads, paddedSizeArg, paddedSizeResult,
                   tTask, tTarget, tpc, tTile, tCall, entry, procVars>>

ConstructorNext ==
    \/ ConstructorInitializers
    \/ ConstructorSpawn
    \/ ConstructorReturn

ConstructorSpec == ConstructorInit /\ [][ConstructorNext]_vars

\* ------------------------------------------------------------------------
\* class TaskProcessor
\* ------------------------------------------------------------------------
\* targetTileSize of startWork.
TargetTileSize == 16 * 1024

\* The tasks the callers build: cells of 4 bytes, one target tile wide, so
\* that setTiling(TargetTileSize) gives one tile per row: 1..MaxTaskTiles tiles.
TaskShapes ==
    {NewTask(TargetTileSize \div 4, rows, 4, prefers, NoRestriction) :
        rows \in 1..MaxTaskTiles, prefers \in {FALSE}}

\* A plausible slip: the pool threads are numbered from 0, like the caller.
PoolThreadIndexFromZero(i) == i

\* The threadIndex bound to the pool thread the constructor creates at i.
PoolThreadIndex(i) == i + 1

\* The threadIndex argument of processTilesOfWork in thread t: i + 1 for the
\* pool thread created at i, 0 for a thread inside doTask.
ThreadIndexOf(t) == IF t \in PoolThreads THEN PoolThreadIndex(t[2]) ELSE 0
\* A plausible slip: the pool threads are started with returnWhenNoWork true.
ReturnWhenNoWorkAlways(t) == TRUE

\* The returnWhenNoWork argument of processTilesOfWork in thread t: false for
\* a pool thread, true for a thread inside doTask.
ReturnWhenNoWork(t) == t \in Callers

\* TaskProcessor::getNumberOfThreads
getNumberOfThreads == mNumberOfPoolThreads + 1

\* The pool threads the constructor has started.
StartedPoolThreads == {t \in PoolThreads : t[2] < mNumberOfPoolThreads}

\* std::mutex::lock of mQueueMutex succeeds when no thread owns the mutex.
QueueMutexFree == mQueueMutex = NoThread

\* A plausible slip: doTask does not wait for mTaskMutex.
TaskMutexIgnored == TRUE

\* std::mutex::lock of mTaskMutex succeeds when no thread owns the mutex.
TaskMutexFree == mTaskMutex = NoThread

\* A plausible slip: the wait does not end for a caller that finds no work.
WorkAvailableOrStopPredNoReturn(returnWhenNoWork) ==
    mStopThreads \/ (mTilesNotYetStarted > 0)

\* The predicate of mWorkAvailableOrStop.wait in processTilesOfWork.
WorkAvailableOrStopPred(returnWhenNoWork) ==
    mStopThreads \/ (mTilesNotYetStarted > 0) \/
    (returnWhenNoWork /\ (mTilesNotYetStarted = 0))

\* The test after the wait that leaves the loop of processTilesOfWork.
LeavesLoop(returnWhenNoWork) ==
    mStopThreads \/ (returnWhenNoWork /\ mTilesNotYetStarted = 0)

\* A plausible slip: the loop goes on when the counter has reached 0.
MoreTilesUnlessStopped == ~mStopThreads

\* A plausible slip: the loop does not test mStopThreads.
MoreTilesIgnoringStop == mTilesNotYetStarted > 0

\* The condition of the inner while loop of processTilesOfWork.
MoreTiles == mTilesNotYetStarted > 0 /\ ~mStopThreads

\* A plausible slip: the wait ends once every tile is claimed.
WorkIsFinishedPredNotStartedOnly == mTilesNotYetStarted = 0

\* The predicate of mWorkIsFinished.wait in waitForPoolWorkersToComplete.
WorkIsFinishedPred == mTilesNotYetStarted = 0 /\ mTilesInProcess = 0

\* std::condition_variable::notify_one: the waiting sets it can leave.
NotifyOne(waiting) ==
    IF waiting = {} THEN {waiting} ELSE {waiting \ {w} : w \in waiting}

\* ---- processTilesOfWork(threadIndex, returnWhenNoWork), in thread t ----

\* std::unique_lock<std::mutex> lock(mQueueMutex)
PtwLock(t) ==
    /\ pc[t] = "ptw_lock"
    /\ QueueMutexFree
    /\ mQueueMutex' = t
    /\ pc' = [pc EXCEPT ![t] = "ptw_wait"]
    /\ UNCHANGED <<numThreads, setUsesSimdCalls, mUsesSimd, mNumberOfPoolThreads, mTaskMutex, mCurrentTask,
                   mStopThreads, mWorkAvailableOrStop, mWorkIsFinished,
                   mTilesNotYetStarted, mTilesInProcess, myTile, joinIndex,
                   tasks, calls, cb, started, returned, tileVars>>

\* mWorkAvailableOrStop.wait: the predicate is false, the thread releases the
\* mutex and blocks.
PtwBlock(t) ==
    /\ pc[t] = "ptw_wait"
    /\ mQueueMutex = t
    /\ ~WorkAvailableOrStopPred(ReturnWhenNoWork(t))
    /\ mQueueMutex' = NoThread
    /\ mWorkAvailableOrStop' = mWorkAvailableOrStop \cup {t}
    /\ pc' = [pc EXCEPT ![t] = "ptw_blocked"]
    /\ UNCHANGED <<numThreads, setUsesSimdCalls, mUsesSimd, mNumberOfPoolThreads, mTaskMutex, mCurrentTask,
                   mStopThreads, mWorkIsFinished,
                   mTilesNotYetStarted, mTilesInProcess, myTile, joinIndex,
                   tasks, calls, cb, started, returned, tileVars>>

\* A blocked thread that has been notified takes the mutex again and
\* evaluates the predicate again.
PtwWake(t) ==
    /\ pc[t] = "ptw_blocked"
    /\ t \notin mWorkAvailableOrStop
    /\ QueueMutexFree
    /\ mQueueMutex' = t
    /\ pc' = [pc EXCEPT ![t] = "ptw_wait"]
    /\ UNCHANGED <<numThreads, setUsesSimdCalls, mUsesSimd, mNumberOfPoolThreads, mTaskMutex, mCurrentTask,
                   mStopThreads, mWorkAvailableOrStop, mWorkIsFinished,
                   mTilesNotYetStarted, mTilesInProcess, myTile, joinIndex,
                   tasks, calls, cb, started, returned, tileVars>>

\* The wait is over and the thread leaves the loop and the function (the
\* unique_lock releases the mutex): a pool thread ends, a caller goes on
\* to waitForPoolWorkersToComplete.
PtwBreak(t) ==
    /\ pc[t] = "ptw_wait"
    /\ mQueueMutex = t
    /\ WorkAvailableOrStopPred(ReturnWhenNoWork(t))
    /\ LeavesLoop(ReturnWhenNoWork(t))
    /\ mQueueMutex' = NoThread
    /\ pc' = [pc EXCEPT ![t] = IF t \in PoolThreads THEN "exited" ELSE "wf_lock"]
    /\ UNCHANGED <<numThreads, setUsesSimdCalls, mUsesSimd, mNumberOfPoolThreads, mTaskMutex, mCurrentTask,
                   mStopThreads, mWorkAvailableOrStop, mWorkIsFinished,
                   mTilesNotYetStarted, mTilesInProcess, myTile, joinIndex,
                   tasks, calls, cb, started, returned, tileVars>>

\* The wait is over and the thread goes to the inner while loop.
PtwEnter(t) ==
    /\ pc[t] = "ptw_wait"
    /\ mQueueMutex = t
    /\ WorkAvailableOrStopPred(ReturnWhenNoWork(t))
    /\ ~LeavesLoop(ReturnWhenNoWork(t))
    /\ pc' = [pc EXCEPT ![t] = "ptw_while"]
    /\ UNCHANGED <<numThreads, setUsesSimdCalls, mUsesSimd, mNumberOfPoolThreads, mTaskMutex, mQueueMutex,
                   mCurrentTask, mStopThreads, mWorkAvailableOrStop, mWorkIsFinished,
                   mTilesNotYetStarted, mTilesInProcess, myTile, joinIndex,
                   tasks, calls, cb, started, returned, tileVars>>

\* A plausible slip: myTile = mTilesNotYetStarted-- (the value before).
ClaimedTilePostDecrement(notYetStarted) == notYetStarted

\* The value of myTile = --mTilesNotYetStarted.
ClaimedTile(notYetStarted) == notYetStarted - 1

\* A plausible slip: the mutex is kept during the callback.
QueueMutexKept(t) == t

\* The owner of mQueueMutex after lock.unlock() in thread t.
QueueMutexUnlocked(t) == NoThread

\* while (mTilesNotYetStarted > 0 && !mStopThreads): the thread claims a tile
\* (myTile = --mTilesNotYetStarted; mTilesInProcess++; lock.unlock()).
PtwClaim(t) ==
    /\ pc[t] = "ptw_while"
    /\ mQueueMutex = t
    /\ MoreTiles
    /\ myTile' = [myTile EXCEPT ![t] = ClaimedTile(mTilesNotYetStarted)]
    /\ mTilesNotYetStarted' = mTilesNotYetStarted - 1
    /\ mTilesInProcess' = mTilesInProcess + 1
    /\ mQueueMutex' = QueueMutexUnlocked(t)
    /\ pc' = [pc EXCEPT ![t] = "ptw_tile"]
    /\ UNCHANGED <<numThreads, setUsesSimdCalls, mUsesSimd, mNumberOfPoolThreads, mTaskMutex, mCurrentTask,
                   mStopThreads, mWorkAvailableOrStop, mWorkIsFinished, joinIndex,
                   tasks, calls, cb, started, returned, tileVars>>

\* The inner while loop ends and the thread waits again.
PtwNoMore(t) ==
    /\ pc[t] = "ptw_while"
    /\ mQueueMutex = t
    /\ ~MoreTiles
    /\ pc' = [pc EXCEPT ![t] = "ptw_wait"]
    /\ UNCHANGED <<numThreads, setUsesSimdCalls, mUsesSimd, mNumberOfPoolThreads, mTaskMutex, mQueueMutex,
                   mCurrentTask, mStopThreads, mWorkAvailableOrStop, mWorkIsFinished,
                   mTilesNotYetStarted, mTilesInProcess, myTile, joinIndex,
                   tasks, calls, cb, started, returned, tileVars>>

\* mCurrentTask->processTile(threadIndex, myTile): the callback starts. The
\* task is the one mCurrentTask points to (the object of its caller). Calling
\* through a null mCurrentTask, or dividing by the mTilesPerRow = 0 of a task
\* that is not tiled, is undefined behaviour: the thread is taken to crash
\* there.
PtwProcessTile(t) ==
    /\ pc[t] = "ptw_tile"
    /\ IF mCurrentTask = NoTask \/ tasks[mCurrentTask[1]].mTilesPerRow = 0
       THEN /\ pc' = [pc EXCEPT ![t] = "crashed"]
            /\ UNCHANGED <<cb, started>>
       ELSE LET c == mCurrentTask[1]
            IN  /\ cb' = [cb EXCEPT ![t] =
                            [task |-> mCurrentTask, tile |-> myTile[t],
                             call |-> ProcessTile(tasks[c], ThreadIndexOf(t),
                                                  myTile[t])]]
                /\ started' = [started EXCEPT ![c] =
                                 [i \in DOMAIN @ |->
                                     IF i = myTile[t] THEN @[i] + 1 ELSE @[i]]]
                /\ pc' = [pc EXCEPT ![t] = "ptw_callback"]
    /\ UNCHANGED <<numThreads, setUsesSimdCalls, mUsesSimd, mNumberOfPoolThreads, mTaskMutex, mQueueMutex,
                   mCurrentTask, mStopThreads, mWorkAvailableOrStop, mWorkIsFinished,
                   mTilesNotYetStarted, mTilesInProcess, myTile, joinIndex,
                   tasks, calls, returned, tileVars>>

\* The callback returns. The local myTile is not read after the call.
PtwCallbackReturn(t) ==
    /\ pc[t] = "ptw_callback"
    /\ LET c == cb[t].task[1]
       IN  returned' = [returned EXCEPT ![c] =
                          [i \in DOMAIN @ |-> IF i = cb[t].tile THEN @[i] + 1 ELSE @[i]]]
    /\ cb' = [cb EXCEPT ![t] = NoCallback]
    /\ myTile' = [myTile EXCEPT ![t] = -1]
    /\ pc' = [pc EXCEPT ![t] = "ptw_relock"]
    /\ UNCHANGED <<numThreads, setUsesSimdCalls, mUsesSimd, mNumberOfPoolThreads, mTaskMutex, mQueueMutex,
                   mCurrentTask, mStopThreads, mWorkAvailableOrStop, mWorkIsFinished,
                   mTilesNotYetStarted, mTilesInProcess, joinIndex,
                   tasks, calls, started, tileVars>>

\* lock.lock() after the tile
PtwRelock(t) ==
    /\ pc[t] = "ptw_relock"
    /\ QueueMutexFree
    /\ mQueueMutex' = t
    /\ pc' = [pc EXCEPT ![t] = "ptw_done"]
    /\ UNCHANGED <<numThreads, setUsesSimdCalls, mUsesSimd, mNumberOfPoolThreads, mTaskMutex, mCurrentTask,
                   mStopThreads, mWorkAvailableOrStop, mWorkIsFinished,
                   mTilesNotYetStarted, mTilesInProcess, myTile, joinIndex,
                   tasks, calls, cb, started, returned, tileVars>>

\* A plausible slip: the notification does not test mTilesNotYetStarted.
NotifiesWhenNoneInProcess == mTilesInProcess = 0

\* The test before mWorkIsFinished.notify_one() in processTilesOfWork.
NotifiesWorkIsFinished == mTilesInProcess = 0 /\ mTilesNotYetStarted = 0

\* A plausible slip: the decrement after the tile forgotten.
TilesInProcessNotDecremented(inProcess) == inProcess

\* The value of mTilesInProcess after mTilesInProcess--.
TilesInProcessAfterTile(inProcess) == inProcess - 1

\* mTilesInProcess--
PtwTileDone(t) ==
    /\ pc[t] = "ptw_done"
    /\ mQueueMutex = t
    /\ mTilesInProcess' = TilesInProcessAfterTile(mTilesInProcess)
    /\ pc' = [pc EXCEPT ![t] = "ptw_test"]
    /\ UNCHANGED <<numThreads, setUsesSimdCalls, mUsesSimd, mNumberOfPoolThreads, mTaskMutex, mQueueMutex,
                   mCurrentTask, mStopThreads, mWorkAvailableOrStop, mWorkIsFinished,
                   mTilesNotYetStarted, myTile, joinIndex,
                   tasks, calls, cb, started, returned, tileVars>>

\* if (mTilesInProcess == 0 && mTilesNotYetStarted == 0): the thread goes to
\* the notification, or else tests the condition of the inner loop again.
PtwTestFinished(t) ==
    /\ pc[t] = "ptw_test"
    /\ mQueueMutex = t
    /\ pc' = [pc EXCEPT ![t] = IF NotifiesWorkIsFinished THEN "ptw_notify"
                                ELSE "ptw_while"]
    /\ UNCHANGED <<numThreads, setUsesSimdCalls, mUsesSimd, mNumberOfPoolThreads, mTaskMutex, mQueueMutex,
                   mCurrentTask, mStopThreads, mWorkAvailableOrStop, mWorkIsFinished,
                   mTilesNotYetStarted, mTilesInProcess, myTile, joinIndex,
                   tasks, calls, cb, started, returned, tileVars>>

\* mWorkIsFinished.notify_one(); then the inner loop tests its condition.
PtwNotify(t) ==
    /\ pc[t] = "ptw_notify"
    /\ mQueueMutex = t
    /\ mWorkIsFinished' \in NotifyOne(mWorkIsFinished)
    /\ pc' = [pc EXCEPT ![t] = "ptw_while"]
    /\ UNCHANGED <<numThreads, setUsesSimdCalls, mUsesSimd, mNumberOfPoolThreads, mTaskMutex, mQueueMutex,
                   mCurrentTask, mStopThreads, mWorkAvailableOrStop,
                   mTilesNotYetStarted, mTilesInProcess, myTile, joinIndex,
                   tasks, calls, cb, started, returned, tileVars>>

\* ---- doTask(task), in the external thread c ----

\* The doTask calls made so far by the callers 1..k, returned or not.
RECURSIVE CallsMade(_)
CallsMade(k) ==
    IF k = 0 THEN 0
    ELSE LET c == <<"caller", k>>
         IN  calls[c] + (IF pc[c] = "idle" THEN 0 ELSE 1) + CallsMade(k - 1)

\* A Toolkit method constructs a Task and calls doTask(&task), on a processor
\* whose destructor has not been called.
CallDoTask(c, task) ==
    /\ pc[c] = "idle"
    /\ pc[Destroyer] = "d_idle"
    /\ CallsMade(NumCallers) < MaxCalls
    /\ tasks' = [tasks EXCEPT ![c] = task]
    /\ started' = [started EXCEPT ![c] = [i \in 0..(-1) |-> 0]]
    /\ returned' = [returned EXCEPT ![c] = [i \in 0..(-1) |-> 0]]
    /\ setUsesSimdCalls' = [setUsesSimdCalls EXCEPT ![c] = 0]
    /\ pc' = [pc EXCEPT ![c] = "dt_lock"]
    /\ UNCHANGED <<numThreads, mUsesSimd, mNumberOfPoolThreads, mTaskMutex, mQueueMutex,
                   mCurrentTask, mStopThreads, mWorkAvailableOrStop, mWorkIsFinished,
                   mTilesNotYetStarted, mTilesInProcess, myTile, joinIndex,
                   calls, cb, tileVars>>

\* std::lock_guard<std::mutex> lockGuard(mTaskMutex)
DoTaskLock(c) ==
    /\ pc[c] = "dt_lock"
    /\ TaskMutexFree
    /\ mTaskMutex' = c
    /\ pc' = [pc EXCEPT ![c] = "dt_set"]
    /\ UNCHANGED <<numThreads, setUsesSimdCalls, mUsesSimd, mNumberOfPoolThreads, mQueueMutex, mCurrentTask,
                   mStopThreads, mWorkAvailableOrStop, mWorkIsFinished,
                   mTilesNotYetStarted, mTilesInProcess, myTile, joinIndex,
                   tasks, calls, cb, started, returned, tileVars>>

\* task->setUsesSimd(mUsesSimd); mCurrentTask = task;
DoTaskSet(c) ==
    /\ pc[c] = "dt_set"
    /\ tasks' = [tasks EXCEPT ![c] = setUsesSimd(@, mUsesSimd)]
    /\ setUsesSimdCalls' = [setUsesSimdCalls EXCEPT ![c] = @ + 1]
    /\ mCurrentTask' = <<c, calls[c] + 1>>
    /\ pc' = [pc EXCEPT ![c] = "sw_lock"]
    /\ UNCHANGED <<numThreads, mUsesSimd, mNumberOfPoolThreads, mTaskMutex, mQueueMutex,
                   mStopThreads, mWorkAvailableOrStop, mWorkIsFinished,
                   mTilesNotYetStarted, mTilesInProcess, myTile, joinIndex,
                   calls, cb, started, returned, tileVars>>

\* startWork: std::lock_guard<std::mutex> lock(mQueueMutex)
StartWorkLock(c) ==
    /\ pc[c] = "sw_lock"
    /\ QueueMutexFree
    /\ mQueueMutex' = c
    /\ pc' = [pc EXCEPT ![c] = "sw_body"]
    /\ UNCHANGED <<numThreads, setUsesSimdCalls, mUsesSimd, mNumberOfPoolThreads, mTaskMutex, mCurrentTask,
                   mStopThreads, mWorkAvailableOrStop, mWorkIsFinished,
                   mTilesNotYetStarted, mTilesInProcess, myTile, joinIndex,
                   tasks, calls, cb, started, returned, tileVars>>

\* startWork: assert(mTilesInProcess == 0), which ends the program when it
\* fails; mTilesNotYetStarted = task->setTiling(targetTileSize);
\* mWorkAvailableOrStop.notify_all(); the lock_guard releases the mutex.
StartWork(c) ==
    /\ pc[c] = "sw_body"
    /\ mQueueMutex = c
    /\ IF mTilesInProcess # 0
       THEN /\ pc' = [pc EXCEPT ![c] = "assert_failed"]
            /\ UNCHANGED <<tasks, mTilesNotYetStarted, started, returned,
                           mWorkAvailableOrStop, mQueueMutex>>
       ELSE /\ LET tiled == SetTiling(tasks[c], TargetTileSize)
               IN  /\ tasks' = [tasks EXCEPT ![c] = tiled]
                   /\ mTilesNotYetStarted' = TileCount(tiled)
                   /\ started' = [started EXCEPT ![c] =
                                    [i \in 0..(TileCount(tiled) - 1) |-> 0]]
                   /\ returned' = [returned EXCEPT ![c] =
                                     [i \in 0..(TileCount(tiled) - 1) |-> 0]]
            /\ mWorkAvailableOrStop' = {}
            /\ mQueueMutex' = NoThread
            /\ pc' = [pc EXCEPT ![c] = "ptw_lock"]
    /\ UNCHANGED <<numThreads, setUsesSimdCalls, mUsesSimd, mNumberOfPoolThreads, mTaskMutex, mCurrentTask,
                   mStopThreads, mWorkIsFinished, mTilesInProcess, myTile, joinIndex,
                   calls, cb, tileVars>>

\* waitForPoolWorkersToComplete: std::unique_lock<std::mutex> lock(mQueueMutex)
WaitLock(c) ==
    /\ pc[c] = "wf_lock"
    /\ QueueMutexFree
    /\ mQueueMutex' = c
    /\ pc' = [pc EXCEPT ![c] = "wf_wait"]
    /\ UNCHANGED <<numThreads, setUsesSimdCalls, mUsesSimd, mNumberOfPoolThreads, mTaskMutex, mCurrentTask,
                   mStopThreads, mWorkAvailableOrStop, mWorkIsFinished,
                   mTilesNotYetStarted, mTilesInProcess, myTile, joinIndex,
                   tasks, calls, cb, started, returned, tileVars>>

\* mWorkIsFinished.wait: the predicate is false, the caller releases the mutex
\* and blocks.
WaitBlock(c) ==
    /\ pc[c] = "wf_wait"
    /\ mQueueMutex = c
    /\ ~WorkIsFinishedPred
    /\ mQueueMutex' = NoThread
    /\ mWorkIsFinished' = mWorkIsFinished \cup {c}
    /\ pc' = [pc EXCEPT ![c] = "wf_blocked"]
    /\ UNCHANGED <<numThreads, setUsesSimdCalls, mUsesSimd, mNumberOfPoolThreads, mTaskMutex, mCurrentTask,
                   mStopThreads, mWorkAvailableOrStop,
                   mTilesNotYetStarted, mTilesInProcess, myTile, joinIndex,
                   tasks, calls, cb, started, returned, tileVars>>

\* The notified caller takes the mutex again and evaluates the predicate again.
WaitWake(c) ==
    /\ pc[c] = "wf_blocked"
    /\ c \notin mWorkIsFinished
    /\ QueueMutexFree
    /\ mQueueMutex' = c
    /\ pc' = [pc EXCEPT ![c] = "wf_wait"]
    /\ UNCHANGED <<numThreads, setUsesSimdCalls, mUsesSimd, mNumberOfPoolThreads, mTaskMutex, mCurrentTask,
                   mStopThreads, mWorkAvailableOrStop, mWorkIsFinished,
                   mTilesNotYetStarted, mTilesInProcess, myTile, joinIndex,
                   tasks, calls, cb, started, returned, tileVars>>

\* mWorkIsFinished.wait returns (the predicate is true) and so does
\* waitForPoolWorkersToComplete, releasing the mutex.
WaitDone(c) ==
    /\ pc[c] = "wf_wait"
    /\ mQueueMutex = c
    /\ WorkIsFinishedPred
    /\ mQueueMutex' = NoThread
    /\ pc' = [pc EXCEPT ![c] = "dt_clear"]
    /\ UNCHANGED <<numThreads, setUsesSimdCalls, mUsesSimd, mNumberOfPoolThreads, mTaskMutex, mCurrentTask,
                   mStopThreads, mWorkAvailableOrStop, mWorkIsFinished,
                   mTilesNotYetStarted, mTilesInProcess, myTile, joinIndex,
                   tasks, calls, cb, started, returned, tileVars>>

\* A plausible slip: mCurrentTask is not reset.
CurrentTaskKept(task) == task

\* mCurrentTask = nullptr at the end of doTask.
CurrentTaskCleared(task) == NoTask

\* mCurrentTask = nullptr; doTask returns and the lock_guard releases
\* mTaskMutex; the Toolkit method returns and its Task is destroyed.
DoTaskReturn(c) ==
    /\ pc[c] = "dt_clear"
    /\ mCurrentTask' = CurrentTaskCleared(mCurrentTask)
    /\ mTaskMutex' = NoThread
    /\ calls' = [calls EXCEPT ![c] = @ + 1]
    /\ tasks' = [tasks EXCEPT ![c] = NoTaskObject]
    /\ started' = [started EXCEPT ![c] = [i \in 0..(-1) |-> 0]]
    /\ returned' = [returned EXCEPT ![c] = [i \in 0..(-1) |-> 0]]
    /\ setUsesSimdCalls' = [setUsesSimdCalls EXCEPT ![c] = 0]
    /\ pc' = [pc EXCEPT ![c] = "idle"]
    /\ UNCHANGED <<numThreads, mUsesSimd, mNumberOfPoolThreads, mQueueMutex,
                   mStopThreads, mWorkAvailableOrStop, mWorkIsFinished,
                   mTilesNotYetStarted, mTilesInProcess, myTile, joinIndex,
                   cb, tileVars>>

\* ---- condition variables ----

\* A thread blocked in a wait may wake without a notification.
SpuriousWakeup(t) ==
    /\ t \in mWorkAvailableOrStop \cup mWorkIsFinished
    /\ mWorkAvailableOrStop' = mWorkAvailableOrStop \ {t}
    /\ mWorkIsFinished' = mWorkIsFinished \ {t}
    /\ UNCHANGED <<numThreads, setUsesSimdCalls, mUsesSimd, mNumberOfPoolThreads, mTaskMutex, mQueueMutex,
                   mCurrentTask, mStopThreads,
                   mTilesNotYetStarted, mTilesInProcess, pc, myTile, joinIndex,
                   tasks, calls, cb, started, returned, tileVars>>

\* ---- ~TaskProcessor, in the destroying thread ----

\* No doTask call is in flight.
NoTaskInFlight == \A c \in Callers : pc[c] = "idle"

\* The destructor is called by contract when no doTask call is in flight.
DestructorCall ==
    /\ pc[Destroyer] = "d_idle"
    /\ NoTaskInFlight
    /\ pc' = [pc EXCEPT ![Destroyer] = "d_lock"]
    /\ UNCHANGED <<numThreads, setUsesSimdCalls, mUsesSimd, mNumberOfPoolThreads, mTaskMutex, mQueueMutex,
                   mCurrentTask, mStopThreads, mWorkAvailableOrStop, mWorkIsFinished,
                   mTilesNotYetStarted, mTilesInProcess, myTile, joinIndex,
                   tasks, calls, cb, started, returned, tileVars>>

\* std::lock_guard<std::mutex> lock(mQueueMutex)
DestructorLock ==
    /\ pc[Destroyer] = "d_lock"
    /\ QueueMutexFree
    /\ mQueueMutex' = Destroyer
    /\ pc' = [pc EXCEPT ![Destroyer] = "d_stop"]
    /\ UNCHANGED <<numThreads, setUsesSimdCalls, mUsesSimd, mNumberOfPoolThreads, mTaskMutex, mCurrentTask,
                   mStopThreads, mWorkAvailableOrStop, mWorkIsFinished,
                   mTilesNotYetStarted, mTilesInProcess, myTile, joinIndex,
                   tasks, calls, cb, started, returned, tileVars>>

\* A plausible slip: the destructor does not notify.
StopNotifyForgotten(waiting) == waiting

\* The threads left waiting on mWorkAvailableOrStop by the destructor's
\* notify_all: none.
StopNotify(waiting) == {}

\* mStopThreads = true; mWorkAvailableOrStop.notify_all(); the mutex is released.
DestructorStop ==
    /\ pc[Destroyer] = "d_stop"
    /\ mQueueMutex = Destroyer
    /\ mStopThreads' = TRUE
    /\ mWorkAvailableOrStop' = StopNotify(mWorkAvailableOrStop)
    /\ mQueueMutex' = NoThread
    /\ joinIndex' = 0
    /\ pc' = [pc EXCEPT ![Destroyer] = "d_join"]
    /\ UNCHANGED <<numThreads, setUsesSimdCalls, mUsesSimd, mNumberOfPoolThreads, mTaskMutex, mCurrentTask,
                   mWorkIsFinished, mTilesNotYetStarted, mTilesInProcess, myTile,
                   tasks, calls, cb, started, returned, tileVars>>

\* for (auto& thread : mPoolThreads) thread.join(): join returns once the
\* thread has left processTilesOfWork.
DestructorJoin ==
    /\ pc[Destroyer] = "d_join"
    /\ joinIndex < mNumberOfPoolThreads
    /\ pc[<<"pool", joinIndex>>] = "exited"
    /\ joinIndex' = joinIndex + 1
    /\ UNCHANGED <<numThreads, setUsesSimdCalls, mUsesSimd, mNumberOfPoolThreads, mTaskMutex, mQueueMutex,
                   mCurrentTask, mStopThreads, mWorkAvailableOrStop, mWorkIsFinished,
                   mTilesNotYetStarted, mTilesInProcess, pc, myTile,
                   tasks, calls, cb, started, returned, tileVars>>

\* Every pool thread is joined: the destructor returns.
DestructorReturn ==
    /\ pc[Destroyer] = "d_join"
    /\ joinIndex = mNumberOfPoolThreads
    /\ pc' = [pc EXCEPT ![Destroyer] = "d_done"]
    /\ UNCHANGED <<numThreads, setUsesSimdCalls, mUsesSimd, mNumberOfPoolThreads, mTaskMutex, mQueueMutex,
                   mCurrentTask, mStopThreads, mWorkAvailableOrStop, mWorkIsFinished,
                   mTilesNotYetStarted, mTilesInProcess, myTile, joinIndex,
                   tasks, calls, cb, started, returned, tileVars>>

\* ---- the system ----

\* The processor after its construction for any numThreads in 1..MaxThreads.
Init ==
    /\ \E n \in 1..MaxThreads, simd \in BOOLEAN : ProcInit(n, simd)
    /\ TileIdle
    /\ UtilIdle

\* A step of thread t inside processTilesOfWork.
PtwStep(t) ==
    \/ PtwLock(t)
    \/ PtwBlock(t)
    \/ PtwWake(t)
    \/ PtwBreak(t)
    \/ PtwEnter(t)
    \/ PtwClaim(t)
    \/ PtwNoMore(t)
    \/ PtwProcessTile(t)
    \/ PtwCallbackReturn(t)
    \/ PtwRelock(t)
    \/ PtwTileDone(t)
    \/ PtwTestFinished(t)
    \/ PtwNotify(t)

\* A step of caller c inside doTask, outside processTilesOfWork.
DoTaskStep(c) ==
    \/ DoTaskLock(c)
    \/ DoTaskSet(c)
    \/ StartWorkLock(c)
    \/ StartWork(c)
    \/ WaitLock(c)
    \/ WaitBlock(c)
    \/ WaitWake(c)
    \/ WaitDone(c)
    \/ DoTaskReturn(c)

\* A step of the destructor once it has been called.
DestructorStep ==
    \/ DestructorLock
    \/ DestructorStop
    \/ DestructorJoin
    \/ DestructorReturn

Next ==
    \/ \E t \in PoolThreads \cup Callers : PtwStep(t)
    \/ \E c \in Callers : \E task \in TaskShapes : CallDoTask(c, task)
    \/ \E c \in Callers : DoTaskStep(c)
    \/ \E t \in PoolThreads \cup Callers : SpuriousWakeup(t)
    \/ DestructorCall
    \/ DestructorStep

Spec == Init /\ [][Next]_vars

\* ---- the destructor called while doTask calls are in flight ----

\* The Toolkit is destroyed by one thread while other threads are inside its
\* methods (RenderScriptToolkit.h:82-88 describes that case).
DestructorCallInFlight ==
    /\ pc[Destroyer] = "d_idle"
    /\ ~NoTaskInFlight
    /\ pc' = [pc EXCEPT ![Destroyer] = "d_lock"]
    /\ UNCHANGED <<numThreads, setUsesSimdCalls, mUsesSimd, mNumberOfPoolThreads, mTaskMutex, mQueueMutex,
                   mCurrentTask, mStopThreads, mWorkAvailableOrStop, mWorkIsFinished,
                   mTilesNotYetStarted, mTilesInProcess, myTile, joinIndex,
                   tasks, calls, cb, started, returned, tileVars>>

\* The destructor has returned and the members are destroyed: what caller c
\* does next inside doTask uses a destroyed mutex, condition variable or
\* counter, which is undefined behaviour. The build may carry on as if the
\* object were intact (the steps of Next) or fail in any way: "undefined"
\* stands for every other outcome, and nothing is known of c after it.
UseAfterDestroy(c) ==
    /\ pc[Destroyer] = "d_done"
    /\ pc[c] \notin {"idle", "undefined"}
    /\ c \notin mWorkAvailableOrStop \cup mWorkIsFinished
    /\ pc' = [pc EXCEPT ![c] = "undefined"]
    /\ UNCHANGED <<numThreads, setUsesSimdCalls, mUsesSimd, mNumberOfPoolThreads, mTaskMutex, mQueueMutex,
                   mCurrentTask, mStopThreads, mWorkAvailableOrStop, mWorkIsFinished,
                   mTilesNotYetStarted, mTilesInProcess, myTile, joinIndex,
                   tasks, calls, cb, started, returned, tileVars>>

DestroyNext ==
    \/ Next
    \/ DestructorCallInFlight
    \/ \E c \in Callers : UseAfterDestroy(c)

\* The processor with a destructor that may be called at any time.
DestroySpec == Init /\ [][DestroyNext]_vars

\* ------------------------------------------------------------------------
\* Properties of setTiling and processTile (under TilingSpec)
\* ------------------------------------------------------------------------
\* The cells of a rectangle are those with startX <= x < endX and
\* startY <= y < endY; a rectangle whose end is not after its start has none.
Area(r) ==
    IF r.endX > r.startX /\ r.endY > r.startY
    THEN (r.endX - r.startX) * (r.endY - r.startY)
    ELSE 0
\* No cell is in both rectangles.
Disjoint(a, b) ==
    \/ Area(a) = 0
    \/ Area(b) = 0
    \/ a.endX <= b.startX
    \/ b.endX <= a.startX
    \/ a.endY <= b.startY
    \/ b.endY <= a.startY
\* Every cell of r is a cell of w.
Inside(r, w) ==
    \/ Area(r) = 0
    \/ /\ w.startX <= r.startX
       /\ r.endX <= w.endX
       /\ w.startY <= r.startY
       /\ r.endY <= w.endY
\* The number of cells of the tiles 0..n-1.
RECURSIVE SumOfAreas(_, _)
SumOfAreas(t, n) ==
    IF n = 0 THEN 0 ELSE Area(TileRect(t, n - 1)) + SumOfAreas(t, n - 1)
\* The tiles 0..n-1 of t cover every cell of the working rectangle once: they
\* lie inside it, no two share a cell, and together they have as many cells
\* as it has.
ExactPartition(t) ==
    LET n == TileCount(t)
        w == WorkRect(t)
    IN  /\ \A i \in 0..(n - 1) : Inside(TileRect(t, i), w)
        /\ \A i \in 0..(n - 1) : \A j \in (i + 1)..(n - 1) :
              Disjoint(TileRect(t, i), TileRect(t, j))
        /\ SumOfAreas(t, n) = Area(w)

\* C1: after setTiling has returned n, the rectangles processTile computes for
\* the tile indices 0..n-1 are pairwise disjoint and their union is the
\* working rectangle (the restriction, or else the whole grid).
C1_TilesPartitionWorkRect ==
    tpc = "tiled" => ExactPartition(tTask)

\* A restricted task whose rows and columns are both split in several tiles,
\* the last tile of a row being clipped.
C1_Witness ==
    /\ tpc = "tiled"
    /\ tTask.mRestriction # NoRestriction
    /\ tTask.mTilesPerRow >= 2
    /\ tTask.mTilesPerColumn >= 2
    /\ tTask.mTilesPerRow * tTask.mCellsPerTileX > CellsToProcessX(tTask)

\* The one-row call for the tile rectangle r.
OneRowCall(t, r) ==
    [threadIndex |-> 0, startX |-> 0, startY |-> r.startY,
     endX |-> t.mSizeX * (r.endY - r.startY), endY |-> r.startY + 1]
\* The call with the tile's own rectangle r.
RectCall(r) ==
    [threadIndex |-> 0, startX |-> r.startX, startY |-> r.startY,
     endX |-> r.endX, endY |-> r.endY]

\* C7: processTile makes the one-row call (0, startY, sizeX*(endY-startY),
\* startY+1) when the task prefers one row and the tile starts at x = 0 and
\* ends at x = sizeX; in every other case it passes the tile's own rectangle.
C7_OneRowExactlyWhenFullWidth ==
    tpc = "called" =>
        LET r == TileRect(tTask, tTile)
        IN  IF tTask.mPrefersDataAsOneRow /\ r.startX = 0 /\ r.endX = tTask.mSizeX
            THEN tCall = OneRowCall(tTask, r)
            ELSE tCall = RectCall(r)

\* A one-row call for a tile of several rows.
C7_Witness ==
    /\ tpc = "called"
    /\ tTask.mPrefersDataAsOneRow
    /\ tCall.endX > tTask.mSizeX
    /\ tCall.endY = tCall.startY + 1

\* The call's bounds lie inside the restriction.
CallInsideRestriction(call, restriction) ==
    /\ restriction.startX <= call.startX
    /\ call.startX < call.endX
    /\ call.endX <= restriction.endX
    /\ restriction.startY <= call.startY
    /\ call.startY < call.endY
    /\ call.endY <= restriction.endY

\* C8: every rectangle passed to processData is contained within the
\* restriction when one is provided, whether or not the task prefers one row.
C8_CallInsideRestriction ==
    (tpc = "called" /\ tTask.mRestriction # NoRestriction) =>
        CallInsideRestriction(tCall, tTask.mRestriction)

\* C9: for a restriction that does not span the whole width of the grid, every
\* processData call has its x bounds inside [startX, endX) and its y bounds
\* inside [startY, endY) of the restriction, whatever the one-row hint.
C9_NarrowRestrictionBoundsCalls ==
    (/\ tpc = "called"
     /\ tTask.mRestriction # NoRestriction
     /\ (tTask.mRestriction.startX > 0 \/ tTask.mRestriction.endX < tTask.mSizeX)) =>
        CallInsideRestriction(tCall, tTask.mRestriction)

\* The spec's example: {startX=10, endX=20, startY=0, endY=5} on a 100x100
\* grid, for a task that prefers one row.
C9_Witness ==
    /\ tpc = "called"
    /\ tTask.mSizeX = 100
    /\ tTask.mSizeY = 100
    /\ tTask.mPrefersDataAsOneRow
    /\ tTask.mRestriction = [startX |-> 10, endX |-> 20, startY |-> 0, endY |-> 5]

\* The task of the spec's first example: 100x50, cells of 4 bytes, no restriction,
\* a target of 1000 bytes.
IsExample1 ==
    /\ tTask.mSizeX = 100
    /\ tTask.mSizeY = 50
    /\ tTask.mVectorSize = 4
    /\ tTask.mRestriction = NoRestriction
    /\ tTarget = 1000

\* C10: for that task setTiling yields tilesPerRow = 1, cellsPerTileX = 100,
\* tilesPerColumn = 17 and returns 17; processTile gives the tiles 0..15 a
\* height of 3 rows and tile 16 a height of 2 rows.
C10_Example1 ==
    (IsExample1 /\ tpc # "constructed") =>
        /\ tTask.mTilesPerRow = 1
        /\ tTask.mCellsPerTileX = 100
        /\ tTask.mTilesPerColumn = 17
        /\ TileCount(tTask) = 17
        /\ tpc = "called" =>
              LET r == TileRect(tTask, tTile)
              IN  /\ tTile \in 0..16
                  /\ r.endY - r.startY = (IF tTile = 16 THEN 2 ELSE 3)
                  /\ ~tTask.mPrefersDataAsOneRow =>
                        tCall.endY - tCall.startY = (IF tTile = 16 THEN 2 ELSE 3)

\* processTile has been called for the last tile of the example.
C10_Witness ==
    /\ IsExample1
    /\ tpc = "called"
    /\ tTile = 16
    /\ ~tTask.mPrefersDataAsOneRow

\* ------------------------------------------------------------------------
\* Fairness: every thread that can take a step eventually takes one, and a
\* thread that finds a mutex free again and again eventually locks it (strong
\* fairness: with weak fairness alone a thread that keeps waking spuriously
\* and taking mQueueMutex could keep every other thread out for ever). There
\* is no fairness on calling doTask, on calling the destructor or on spurious
\* wake-ups.
\* ------------------------------------------------------------------------
Fairness ==
    /\ \A t \in PoolThreads \cup Callers : SF_vars(PtwStep(t))
    /\ \A c \in Callers : SF_vars(DoTaskStep(c))
    /\ SF_vars(DestructorStep)

FairSpec == Spec /\ Fairness

\* The same scheduling for the processor whose destructor may be called at
\* any time.
DestroyFairSpec == DestroySpec /\ Fairness

\* ------------------------------------------------------------------------
\* Properties of the TaskProcessor (under Spec and FairSpec)
\* ------------------------------------------------------------------------
\* Thread t is executing a callback.
InCallback(t) == cb[t] # NoCallback
\* The task of the doTask call caller c is in.
TaskOf(c) == <<c, calls[c] + 1>>
\* Caller c is between the start of the tile distribution (startWork has set
\* the counter) and the return of doTask.
Distributing(c) ==
    pc[c] \in {"ptw_lock", "ptw_wait", "ptw_blocked", "ptw_while", "ptw_tile",
               "ptw_callback", "ptw_relock", "ptw_done", "ptw_test",
               "ptw_notify", "crashed",
               "wf_lock", "wf_wait", "wf_blocked", "dt_clear"}
\* Caller c is at the return of doTask (waitForPoolWorkersToComplete is over).
Returning(c) == pc[c] = "dt_clear"

\* C2: in every doTask call processTile is invoked once for each tile index
\* 0..n-1 and for no other index, never twice, and doTask returns only after
\* all n invocations have returned.
C2_EachTileOnceBeforeReturn ==
    /\ \A c \in Callers : \A i \in DOMAIN started[c] :
          /\ started[c][i] <= 1
          /\ returned[c][i] <= started[c][i]
    /\ \A t \in PoolThreads \cup Callers :
          InCallback(t) =>
              cb[t].tile \in 0..(TileCount(tasks[cb[t].task[1]]) - 1)
    /\ \A c \in Callers :
          Returning(c) =>
              /\ DOMAIN started[c] = 0..(TileCount(tasks[c]) - 1)
              /\ \A i \in 0..(TileCount(tasks[c]) - 1) :
                    started[c][i] = 1 /\ returned[c][i] = 1

\* doTask returns for a task of several tiles on a processor with a pool thread.
C2_Witness ==
    \E c \in Callers :
        /\ Returning(c)
        /\ TileCount(tasks[c]) >= 2
        /\ mNumberOfPoolThreads >= 1

\* C3: at most one task is active at any instant: no two callers are past the
\* start of the tile distribution at once, every callback that is running
\* belongs to the task of the caller that is, and so all running callbacks
\* belong to one task.
C3_OneTaskAtATime ==
    /\ \A c1 \in Callers : \A c2 \in Callers :
          (Distributing(c1) /\ Distributing(c2)) => c1 = c2
    /\ \A t \in PoolThreads \cup Callers : \A c \in Callers :
          (InCallback(t) /\ Distributing(c)) => cb[t].task = TaskOf(c)
    /\ \A t1 \in PoolThreads \cup Callers : \A t2 \in PoolThreads \cup Callers :
          (InCallback(t1) /\ InCallback(t2)) => cb[t1].task = cb[t2].task

\* A pool thread and a caller execute callbacks of one task while another
\* caller waits for the task mutex.
C3_Witness ==
    \E c1 \in Callers : \E c2 \in Callers : \E p \in PoolThreads :
        /\ InCallback(c1)
        /\ InCallback(p)
        /\ pc[c2] = "dt_lock"

\* C4: every threadIndex passed to a callback is in 0..getNumberOfThreads()-1
\* and no two callbacks that execute at the same instant have the same
\* threadIndex.
C4_ThreadIndexBoundAndUnique ==
    /\ \A t \in PoolThreads \cup Callers :
          InCallback(t) =>
              /\ 0 <= cb[t].call.threadIndex
              /\ cb[t].call.threadIndex < getNumberOfThreads
    /\ \A t1 \in PoolThreads \cup Callers : \A t2 \in PoolThreads \cup Callers :
          (InCallback(t1) /\ InCallback(t2) /\ t1 # t2) =>
              cb[t1].call.threadIndex # cb[t2].call.threadIndex

\* Two callbacks execute at once while a second external thread is inside doTask.
C4_Witness ==
    \E c1 \in Callers : \E c2 \in Callers : \E p \in PoolThreads :
        /\ InCallback(c1)
        /\ InCallback(p)
        /\ cb[c1].call.threadIndex = 0
        /\ cb[p].call.threadIndex = 1
        /\ c2 # c1
        /\ pc[c2] = "dt_lock"

\* C5: every doTask call that has acquired the task mutex eventually returns
\* (the destructor is not called while a call is in flight).
C5_DoTaskReturns ==
    \A c \in Callers : (pc[c] = "dt_set") ~> (pc[c] = "idle")

\* The pool threads have finished every tile before the caller enters
\* processTilesOfWork.
C5_Witness ==
    \E c \in Callers :
        /\ pc[c] = "ptw_lock"
        /\ mNumberOfPoolThreads >= 1
        /\ mTilesNotYetStarted = 0
        /\ mTilesInProcess = 0
        /\ TileCount(tasks[c]) >= 2
        /\ \A i \in DOMAIN returned[c] : returned[c][i] = 1

\* The destructor has returned: the stop flag is set and every pool thread has
\* left processTilesOfWork and is joined.
DestructorDone ==
    /\ pc[Destroyer] = "d_done"
    /\ mStopThreads
    /\ joinIndex = mNumberOfPoolThreads
    /\ \A t \in StartedPoolThreads : pc[t] = "exited"

\* C6: a destructor called while no task is in flight eventually returns, with
\* the stop flag set and every pool thread out of processTilesOfWork and
\* joined; from then on no pool thread runs.
C6_DestructorJoinsAll ==
    /\ (pc[Destroyer] = "d_lock") ~> DestructorDone
    /\ [](pc[Destroyer] = "d_done" => DestructorDone)

\* The destructor has returned on a processor with a pool thread that has
\* served a task.
C6_Witness ==
    /\ DestructorDone
    /\ mNumberOfPoolThreads >= 1
    /\ CallsMade(NumCallers) >= 1

\* ------------------------------------------------------------------------
\* Further properties of the tiling (specification TilingSpec)
\* ------------------------------------------------------------------------
\* The Task is a 1x1 grid without restriction.
IsOneByOne ==
    /\ tTask.mSizeX = 1
    /\ tTask.mSizeY = 1
    /\ tTask.mRestriction = NoRestriction

UnitRect == [startX |-> 0, startY |-> 0, endX |-> 1, endY |-> 1]

\* C11: on a 1x1 grid without restriction setTiling returns 1, whatever the
\* cell size and the target tile size, and the one tile is [0,1) x [0,1): that
\* is the rectangle processTile computes and the one processData is given.
C11_OneByOneIsOneTile ==
    (IsOneByOne /\ tpc \in {"tiled", "called"}) =>
        /\ TileCount(tTask) = 1
        /\ TileRect(tTask, 0) = UnitRect
        /\ tpc = "called" =>
              /\ tTile = 0
              /\ [startX |-> tCall.startX, startY |-> tCall.startY,
                  endX |-> tCall.endX, endY |-> tCall.endY] = UnitRect

\* A 1x1 grid of 4-byte cells tiled for a target below the floor, and its tile
\* processed.
C11_Witness ==
    /\ IsOneByOne
    /\ tpc = "called"
    /\ tTask.mVectorSize = 4
    /\ tTarget = 999
    /\ TileCount(tTask) = 1

\* The Task as it was before setTiling: tiling fields 0.
Untiled(t) ==
    [t EXCEPT !.mTilesPerRow = 0, !.mCellsPerTileX = 0,
              !.mTilesPerColumn = 0, !.mCellsPerTileY = 0]

\* Target tile sizes below the floor.
TargetsBelowFloor == {0, 1, 250, 999}

\* C16: setTiling with a target below 1000 sets the fields, and so returns the
\* count, that setTiling(1000) sets on the same task; the target cells per
\* tile is at least 250 for the cell sizes 1..4, so the assertion
\* targetCellsPerTile > 0 holds.
C16_TargetsBelowFloorAreTheFloor ==
    tpc # "none" =>
        /\ \A t \in TargetsBelowFloor :
              /\ TargetCellsPerTile(tTask, t) >= 250
              /\ SetTiling(Untiled(tTask), t) = SetTiling(Untiled(tTask), 1000)
              /\ TileCount(SetTiling(Untiled(tTask), t))
                    = TileCount(SetTiling(Untiled(tTask), 1000))
        /\ TargetCellsPerTile(tTask, tTarget) >= 250
        /\ (tpc # "constructed" /\ tTarget < 1000) =>
              tTask = SetTiling(Untiled(tTask), 1000)

\* setTiling(999) has run on 4-byte cells and has split the work in tiles.
C16_Witness ==
    /\ tpc = "tiled"
    /\ tTarget = 999
    /\ tTask.mVectorSize = 4
    /\ TileCount(tTask) > 1

\* The ceiling of a / b, for a >= 0 and b > 0.
Ceil(a, b) == (a + b - 1) \div b

\* C19: with W x H the working rectangle and C = max(1000, target) / cellSize,
\* setTiling sets tilesPerRow = ceil(W / C), cellsPerTileX =
\* ceil(W / tilesPerRow), tilesPerColumn = ceil(H / ceil(C / cellsPerTileX)),
\* cellsPerTileY = ceil(H / tilesPerColumn), and returns
\* tilesPerRow * tilesPerColumn.
C19_SetTilingFormulas ==
    tpc \in {"tiled", "called"} =>
        LET w == WorkRect(tTask)
            W == w.endX - w.startX
            H == w.endY - w.startY
            C == (IF tTarget > 1000 THEN tTarget ELSE 1000) \div tTask.mVectorSize
        IN  /\ tTask.mTilesPerRow = Ceil(W, C)
            /\ tTask.mCellsPerTileX = Ceil(W, tTask.mTilesPerRow)
            /\ tTask.mTilesPerColumn = Ceil(H, Ceil(C, tTask.mCellsPerTileX))
            /\ tTask.mCellsPerTileY = Ceil(H, tTask.mTilesPerColumn)
            /\ TileCount(tTask) = Ceil(W, C) * Ceil(H, Ceil(C, Ceil(W, Ceil(W, C))))

\* setTiling has run on a restricted task where neither division is exact and
\* there are several tiles per row and per column.
C19_Witness ==
    /\ tpc = "tiled"
    /\ tTask.mRestriction # NoRestriction
    /\ tTask.mTilesPerRow > 1
    /\ tTask.mTilesPerColumn > 1
    /\ CellsToProcessX(tTask) % tTask.mTilesPerRow # 0
    /\ CellsToProcessY(tTask) % tTask.mTilesPerColumn # 0

\* ------------------------------------------------------------------------
\* Further properties of the TaskProcessor (specification Spec)
\* ------------------------------------------------------------------------
\* C14: the constructor called with numThreads = n >= 1 starts n - 1 pool
\* threads; the pool thread created at i passes threadIndex i + 1, in
\* 1..n-1, to every callback it runs, whatever the task; a thread inside
\* doTask passes 0; getNumberOfThreads() is n.
C14_ThreadCountAndStableIndex ==
    /\ numThreads >= 1
    /\ Cardinality({t \in PoolThreads : pc[t] # "none"}) = numThreads - 1
    /\ getNumberOfThreads = numThreads
    /\ \A t \in PoolThreads \cup Callers :
          InCallback(t) =>
             /\ t \in Callers => cb[t].call.threadIndex = 0
             /\ t \in PoolThreads =>
                   /\ cb[t].call.threadIndex = t[2] + 1
                   /\ cb[t].call.threadIndex \in 1..(numThreads - 1)

\* The pool thread runs a callback of a second task with index 1, while a
\* first call has returned.
C14_Witness ==
    /\ numThreads = 2
    /\ \E t \in PoolThreads :
          /\ InCallback(t)
          /\ cb[t].call.threadIndex = 1
          /\ \E c \in Callers : calls[c] >= 1

\* C17: processTile is invoked only on the task of the doTask call that holds
\* mTaskMutex: where a thread dereferences mCurrentTask it is not null and is
\* that task; every running callback is on that task; mCurrentTask is null
\* when no call holds the mutex (so before doTask returns); no callback runs on
\* the task of a call that has returned.
C17_CallbacksOnCurrentTaskOnly ==
    /\ \A t \in PoolThreads \cup Callers :
          /\ pc[t] # "crashed"
          /\ pc[t] = "ptw_tile" =>
                /\ mCurrentTask # NoTask
                /\ mTaskMutex = mCurrentTask[1]
                /\ mCurrentTask = TaskOf(mTaskMutex)
          /\ InCallback(t) =>
                /\ cb[t].task = mCurrentTask
                /\ mTaskMutex = cb[t].task[1]
                /\ cb[t].task = TaskOf(mTaskMutex)
                /\ cb[t].task[2] > calls[cb[t].task[1]]
    /\ mTaskMutex = NoThread => mCurrentTask = NoTask
    /\ \A c \in Callers : pc[c] = "idle" => mCurrentTask[1] # c

\* A call has returned and the pool thread runs a callback of the next call,
\* made by the other caller.
C17_Witness ==
    \E t \in PoolThreads, c \in Callers :
        /\ InCallback(t)
        /\ cb[t].task[1] # c
        /\ calls[c] = 1
        /\ pc[c] = "idle"

\* The tile count of the current task (0 when there is none or when startWork
\* has not tiled it yet).
CurrentTileCount ==
    IF mCurrentTask = NoTask THEN 0 ELSE TileCount(tasks[mCurrentTask[1]])

\* C20: 0 <= mTilesNotYetStarted <= n, the tile count of the current task,
\* and 0 <= mTilesInProcess <= mNumberOfPoolThreads + 1.
C20_CountersInRange ==
    /\ 0 <= mTilesNotYetStarted
    /\ mTilesNotYetStarted <= CurrentTileCount
    /\ 0 <= mTilesInProcess
    /\ mTilesInProcess <= mNumberOfPoolThreads + 1

\* Every thread is processing a tile and none is left.
C20_Witness ==
    /\ mNumberOfPoolThreads = 1
    /\ mTilesInProcess = mNumberOfPoolThreads + 1
    /\ mTilesNotYetStarted = 0
    /\ CurrentTileCount = 2

\* ------------------------------------------------------------------------
\* The destructor during a doTask call (DestroySpec, DestroyFairSpec)
\* ------------------------------------------------------------------------
\* Caller c is inside doTask(task) once task is the current one.
InDoTask(c) == pc[c] # "idle" /\ mCurrentTask = TaskOf(c)

\* C12: when the processor is destroyed while a thread is inside doTask with
\* tiles not yet started, the work is stopped (no tile is claimed any more)
\* and that doTask call returns. A call whose behaviour has become undefined
\* is counted as returned.
C12_DestroyedDoTaskReturns ==
    \A c \in Callers :
        (mStopThreads /\ InDoTask(c) /\ mTilesNotYetStarted > 0)
            ~> (pc[c] \in {"idle", "undefined"})

\* C13: the pool threads exit, and so are joined, only after the pending work
\* is done: once the destructor has been called, a pool thread has exited
\* only if no tile of the current task is left unstarted.
C13_PendingTilesRunBeforeExit ==
    \A p \in StartedPoolThreads :
        (pc[Destroyer] # "d_idle" /\ mCurrentTask # NoTask /\ pc[p] = "exited")
            => mTilesNotYetStarted = 0

\* ------------------------------------------------------------------------
\* Properties of the Toolkit methods (specification ToolkitSpec)
\* ------------------------------------------------------------------------
\* The restriction lies in the sizeX x sizeY grid and is not empty.
RestrictionInsideGrid(sizeX, sizeY, r) ==
    /\ r.startX < r.endX
    /\ r.endX <= sizeX
    /\ r.startY < r.endY
    /\ r.endY <= sizeY

\* A Task has been built by the method.
TaskBuilt == tpc \in {"constructed", "tiled", "undefined"}

\* C15: validRestriction is true of a non-null restriction only if
\* startX < endX <= sizeX and startY < endY <= sizeY, so the restriction of
\* every Task a Toolkit method has built satisfies that; a null restriction
\* is never rejected.
C15_AcceptedRestrictionInsideGrid ==
    /\ (tpc \in {"rejected", "constructed"} /\ entry.restriction # NoRestriction
          /\ validRestriction(entry.sizeX, entry.sizeY, entry.restriction))
         => RestrictionInsideGrid(entry.sizeX, entry.sizeY, entry.restriction)
    /\ (TaskBuilt /\ tTask.mRestriction # NoRestriction)
         => RestrictionInsideGrid(tTask.mSizeX, tTask.mSizeY, tTask.mRestriction)
    /\ tpc = "rejected" => entry.restriction # NoRestriction

\* C18: every Toolkit method rejects sizeX = 0 and sizeY = 0 before it builds
\* its Task, so setTiling runs on a working rectangle that is not empty,
\* never divides by zero and sets tilesPerRow >= 1 and tilesPerColumn >= 1.
C18_EntryPointsRejectEmptyGrids ==
    /\ TaskBuilt => (tTask.mSizeX > 0 /\ tTask.mSizeY > 0)
    /\ tpc = "constructed" => ~SetTilingDividesByZero(tTask, tTarget)
    /\ tpc # "undefined"
    /\ tpc = "tiled" => (tTask.mTilesPerRow >= 1 /\ tTask.mTilesPerColumn >= 1)

\* ------------------------------------------------------------------------
\* The queue mutex, the counters and the notifications (Spec, DestroySpec)
\* ------------------------------------------------------------------------
\* Thread t is between its claim of a tile and the lock.lock() after the
\* callback: it is about to call processTile, inside it, or just out of it.
AtProcessTile(t) == pc[t] \in {"ptw_tile", "ptw_callback", "ptw_relock"}

\* C21: no thread holds mQueueMutex while it executes processTile: the mutex
\* is released at the claim and taken again only after the callback has
\* returned.
C21_QueueMutexFreeInCallback ==
    \A t \in PoolThreads \cup Callers :
        (AtProcessTile(t) \/ InCallback(t)) => mQueueMutex # t

\* The callbacks of the caller and of the pool thread run at the same time,
\* and a third thread holds the mutex meanwhile.
C21_Witness ==
    /\ \E t \in PoolThreads, c \in Callers : InCallback(t) /\ InCallback(c)
    /\ mQueueMutex # NoThread

\* C22: mWorkIsFinished is notified only when mTilesNotYetStarted = 0 and
\* mTilesInProcess = 0, and waitForPoolWorkersToComplete, hence doTask,
\* returns only when both counters are 0.
C22_NotifyAndReturnAtZero ==
    /\ \A t \in PoolThreads \cup Callers :
          pc[t] = "ptw_notify" => (mTilesNotYetStarted = 0 /\ mTilesInProcess = 0)
    /\ \A c \in Callers :
          pc[c] = "dt_clear" => (mTilesNotYetStarted = 0 /\ mTilesInProcess = 0)

\* The pool thread is at the notification while the caller is blocked in
\* waitForPoolWorkersToComplete.
C22_Witness ==
    \E t \in PoolThreads, c \in Callers :
        /\ pc[t] = "ptw_notify"
        /\ pc[c] = "wf_blocked"
        /\ c \in mWorkIsFinished

\* C24: assert(mTilesInProcess == 0) of startWork holds whenever it is
\* evaluated, with callers that call doTask at the same time and with calls
\* that follow one another.
C24_StartWorkAssertHolds ==
    \A c \in Callers :
        /\ pc[c] = "sw_body" => mTilesInProcess = 0
        /\ pc[c] # "assert_failed"

\* startWork is at its assertion in a call that follows a returned call of
\* the other caller, on a processor with a pool thread.
C24_Witness ==
    \E c \in Callers, d \in Callers :
        /\ pc[c] = "sw_body"
        /\ d # c
        /\ calls[d] = 1
        /\ mNumberOfPoolThreads = 1

\* Caller c is inside doTask after task->setUsesSimd.
AfterSetUsesSimd(c) == pc[c] \in {"sw_lock", "sw_body", "assert_failed"} \/ Distributing(c)

\* C23: each doTask call calls setUsesSimd once, with the mUsesSimd of the
\* processor, before mTilesNotYetStarted becomes positive and so before any
\* processTile of the task; the task's mUsesSimd is not written while a
\* callback of the task runs.
C23_SetUsesSimdOnceBeforeTiles ==
    /\ [](\A c \in Callers :
            /\ setUsesSimdCalls[c] = (IF AfterSetUsesSimd(c) THEN 1 ELSE 0)
            /\ AfterSetUsesSimd(c) => tasks[c].mUsesSimd = mUsesSimd
            /\ (pc[c] = "dt_set" /\ setUsesSimdCalls[c] = 0) =>
                  /\ mTilesNotYetStarted = 0
                  /\ \A t \in PoolThreads \cup Callers : ~InCallback(t)
            /\ \A t \in PoolThreads \cup Callers :
                  (InCallback(t) /\ cb[t].task[1] = c) =>
                      (setUsesSimdCalls[c] = 1 /\ tasks[c].mUsesSimd = mUsesSimd))
    /\ [][\A c \in Callers :
             (\E t \in PoolThreads \cup Callers : InCallback(t) /\ cb[t].task[1] = c)
                => (/\ tasks'[c].mUsesSimd = tasks[c].mUsesSimd
                    /\ setUsesSimdCalls'[c] = setUsesSimdCalls[c])]_vars

\* On a processor that uses SIMD, a callback runs on a task that was built
\* without it and has been set once.
C23_Witness ==
    /\ mUsesSimd
    /\ \E t \in PoolThreads, c \in Callers :
          /\ InCallback(t)
          /\ cb[t].task[1] = c
          /\ tasks[c].mUsesSimd
          /\ setUsesSimdCalls[c] = 1

\* C25: within a doTask call the tiles are claimed in the order n-1, ..., 0:
\* mTilesNotYetStarted changes only by startWork, which sets it from 0 to n,
\* and by a claim, which decrements it by one under mQueueMutex and takes the
\* new value as index; every claimed index is in 0..n-1 and no index is
\* claimed twice.
C25_ClaimsInDecreasingOrder ==
    /\ [](/\ \A t \in PoolThreads \cup Callers :
               myTile[t] # -1 =>
                  /\ myTile[t] \in 0..(CurrentTileCount - 1)
                  /\ myTile[t] >= mTilesNotYetStarted
                  /\ \A u \in (PoolThreads \cup Callers) \ {t} : myTile[u] # myTile[t]
           /\ \A c \in Callers : \A i \in DOMAIN started[c] : started[c][i] <= 1)
    /\ [][mTilesNotYetStarted' # mTilesNotYetStarted =>
            \/ \E c \in Callers :
                  /\ pc[c] = "sw_body"
                  /\ mQueueMutex = c
                  /\ mTilesNotYetStarted = 0
                  /\ mTilesNotYetStarted' = TileCount(tasks'[c])
            \/ \E t \in PoolThreads \cup Callers :
                  /\ mQueueMutex = t
                  /\ mTilesNotYetStarted' = mTilesNotYetStarted - 1
                  /\ myTile[t] = -1
                  /\ myTile'[t] = mTilesNotYetStarted']_vars

\* Tile 1 has been claimed and then tile 0, by two threads.
C25_Witness ==
    \E t \in PoolThreads \cup Callers, u \in PoolThreads \cup Callers :
        /\ myTile[t] = 1
        /\ myTile[u] = 0
        /\ mTilesNotYetStarted = 0

\* C26: once mStopThreads is set no thread claims a tile: mTilesNotYetStarted
\* is not decremented, mTilesInProcess does not grow, and a thread's myTile
\* changes only when the callback of the tile it had claimed returns.
C26_NoClaimAfterStop ==
    [][mStopThreads =>
          /\ mTilesNotYetStarted' >= mTilesNotYetStarted
          /\ mTilesInProcess' <= mTilesInProcess
          /\ \A t \in PoolThreads \cup Callers :
                myTile'[t] # myTile[t] => (myTile'[t] = -1 /\ pc[t] = "ptw_callback")]_vars

\* After the stop, a thread that has run the tile it had claimed tests the
\* loop condition with a tile left.
C26_Witness ==
    /\ mStopThreads
    /\ mTilesNotYetStarted > 0
    /\ \E t \in PoolThreads \cup Callers : pc[t] = "ptw_while"

\* The tiles of caller c's task whose callback has returned.
ReturnedTiles(c) == Cardinality({i \in DOMAIN returned[c] : returned[c][i] >= 1})

\* The threads whose callback has returned and that have not yet executed
\* mTilesInProcess--.
BeforeDecrement == {t \in PoolThreads \cup Callers : pc[t] \in {"ptw_relock", "ptw_done"}}

\* Where thread t reads or writes the counters, it holds mQueueMutex.
CountersUnderMutex ==
    \A t \in PoolThreads \cup Callers :
        pc[t] \in {"ptw_wait", "ptw_while", "ptw_done", "ptw_test", "ptw_notify",
                   "sw_body", "wf_wait"} => mQueueMutex = t

\* C27: during a doTask call mTilesNotYetStarted + mTilesInProcess + (tiles
\* whose callback has returned) is n, the tile count of the task; the
\* counters are read and written only under mQueueMutex.
C27_CounterSum ==
    /\ CountersUnderMutex
    /\ \A c \in Callers :
          (Distributing(c) /\ mCurrentTask = TaskOf(c)) =>
              mTilesNotYetStarted + mTilesInProcess + ReturnedTiles(c)
                  = TileCount(tasks[c])

\* C27, amended: a tile whose callback has returned is still counted in
\* mTilesInProcess until its thread has taken the mutex again and decremented
\* it; the sum is n plus the number of threads at that point.
C27_CounterSumUntilDecrement ==
    /\ [](/\ CountersUnderMutex
           /\ \A c \in Callers :
                 (Distributing(c) /\ mCurrentTask = TaskOf(c)) =>
                     mTilesNotYetStarted + mTilesInProcess + ReturnedTiles(c)
                         = TileCount(tasks[c]) + Cardinality(BeforeDecrement))
    /\ [][(mTilesNotYetStarted' # mTilesNotYetStarted \/ mTilesInProcess' # mTilesInProcess)
            => (mQueueMutex # NoThread /\ pc'[mQueueMutex] # pc[mQueueMutex])]_vars

\* A callback has returned and its thread has not yet decremented
\* mTilesInProcess, while another tile is left.
C27_Witness ==
    /\ BeforeDecrement # {}
    /\ mTilesNotYetStarted = 1
    /\ mTilesInProcess = 1
    /\ \E c \in Callers : Distributing(c) /\ ReturnedTiles(c) = 1

\* C30: once doTask has returned and no call holds mTaskMutex, the counters
\* are 0 and mCurrentTask is null; in every call the tiling fields are those
\* setTiling computes from the task's own geometry, the tiles started are
\* tiles of that tiling, and at the return each of them has run once.
C30_IdleAfterReturnFreshTiling ==
    /\ mTaskMutex = NoThread =>
          (mTilesNotYetStarted = 0 /\ mTilesInProcess = 0 /\ mCurrentTask = NoTask)
    /\ \A c \in Callers :
          /\ pc[c] = "idle" => mCurrentTask[1] # c
          /\ Distributing(c) =>
                /\ tasks[c] = SetTiling(Untiled(tasks[c]), TargetTileSize)
                /\ DOMAIN started[c] = 0..(TileCount(tasks[c]) - 1)
                /\ mTilesNotYetStarted <= TileCount(tasks[c])
          /\ pc[c] = "dt_clear" =>
                \A i \in 0..(TileCount(tasks[c]) - 1) :
                    started[c][i] = 1 /\ returned[c][i] = 1
    /\ \A t \in PoolThreads \cup Callers :
          InCallback(t) => cb[t].tile \in 0..(TileCount(tasks[cb[t].task[1]]) - 1)

\* A call has returned, and a later call on a task of one tile is at its
\* return.
C30_Witness ==
    \E c \in Callers, d \in Callers :
        /\ calls[d] = 1
        /\ pc[d] = "idle"
        /\ pc[c] = "dt_clear"
        /\ TileCount(tasks[c]) = 1

\* ------------------------------------------------------------------------
\* The shape of the tiles, and the cells a call addresses
\* ------------------------------------------------------------------------
\* The column and the row of a tile in the grid of tiles.
TileColumn(t, tileIndex) == tileIndex % t.mTilesPerRow
TileRow(t, tileIndex) == tileIndex \div t.mTilesPerRow

\* C28: for every tile index in 0..n-1 the tile rectangle is non-empty; a
\* tile that is not the last of its row has width mCellsPerTileX and a tile
\* that is not the last of its column has height mCellsPerTileY; the call
\* made for a tile is non-empty too.
C28_TilesNonEmptyFullSized ==
    /\ tpc \in {"tiled", "called"} =>
          \A i \in 0..(TileCount(tTask) - 1) :
              LET r == TileRect(tTask, i)
              IN  /\ r.startX < r.endX
                  /\ r.startY < r.endY
                  /\ TileColumn(tTask, i) < tTask.mTilesPerRow - 1
                        => r.endX - r.startX = tTask.mCellsPerTileX
                  /\ TileRow(tTask, i) < tTask.mTilesPerColumn - 1
                        => r.endY - r.startY = tTask.mCellsPerTileY
    /\ tpc = "called" =>
          /\ tCall.startX < tCall.endX
          /\ tCall.startY < tCall.endY

\* A tiling of several rows and columns of tiles whose last column and last
\* row are clipped, and the call for its last tile.
C28_Witness ==
    /\ tpc = "called"
    /\ tTask.mTilesPerRow > 1
    /\ tTask.mTilesPerColumn > 1
    /\ tTile = TileCount(tTask) - 1
    /\ tCall.endX - tCall.startX < tTask.mCellsPerTileX
    /\ tCall.endY - tCall.startY < tTask.mCellsPerTileY

\* The row-major offsets a kernel addresses in a processData call: for each
\* row y of the call, offsets mSizeX * y + startX up to mSizeX * y + endX - 1.
AddressedCells(t, call) ==
    UNION { { t.mSizeX * y + x : x \in call.startX..(call.endX - 1) } :
                y \in call.startY..(call.endY - 1) }

\* C29: when processTile makes the one-row call, the offsets that call
\* addresses are the row-major offsets of the cells of the tile's rectangle,
\* and that rectangle is [0, sizeX) x [startY, endY).
C29_CollapseKeepsCells ==
    tpc = "called" =>
        LET r == TileRect(tTask, tTile)
        IN  tCall = OneRowCall(tTask, r) =>
                /\ r.startX = 0
                /\ r.endX = tTask.mSizeX
                /\ AddressedCells(tTask, tCall) = AddressedCells(tTask, RectCall(r))

\* A one-row call for a tile of several rows of a grid wider than one cell:
\* the call's shape differs from the tile's.
C29_Witness ==
    /\ tpc = "called"
    /\ tTask.mSizeX > 1
    /\ tCall = OneRowCall(tTask, TileRect(tTask, tTile))
    /\ tCall # RectCall(TileRect(tTask, tTile))
    /\ TileRect(tTask, tTile).endY - TileRect(tTask, tTile).startY > 1
    /\ TileCount(tTask) > 1

\* ------------------------------------------------------------------------
\* paddedSize and the constructor's thread count
\* ------------------------------------------------------------------------
\* C37: paddedSize(v) is 4 for v = 3 and v for every other v, in particular
\* for 1, 2 and 4.
C37_PaddedSize ==
    paddedSizeResult # NotReturned =>
        /\ paddedSizeArg = 3 => paddedSizeResult = 4
        /\ paddedSizeArg # 3 => paddedSizeResult = paddedSizeArg
        /\ paddedSizeArg \in {1, 2, 4} => paddedSizeResult = paddedSizeArg

\* paddedSize has returned 4 for 3.
C37_Witness ==
    /\ paddedSizeArg = 3
    /\ paddedSizeResult = 4

\* C33: with numThreads = 0 the number of pool threads is 0 when
\* hardware_concurrency is 1, 6 when it is 0, min(6, hardware_concurrency - 1)
\* otherwise and never above 6; getNumberOfThreads() is in 1..7, and the
\* constructor starts that many pool threads.
C33_AutoThreadCount ==
    (ctorNumThreads = 0 /\ ctorPc \in {"body", "constructed"}) =>
        /\ hardwareConcurrency = 1 => ctorNumberOfPoolThreads = 0
        /\ hardwareConcurrency = 0 => ctorNumberOfPoolThreads = 6
        /\ hardwareConcurrency >= 1 =>
              ctorNumberOfPoolThreads = Min(6, hardwareConcurrency - 1)
        /\ ctorNumberOfPoolThreads \in 0..6
        /\ ctorNumberOfPoolThreads + 1 \in 1..7
        /\ Len(mPoolThreads) <= ctorNumberOfPoolThreads
        /\ ctorPc = "constructed" => Len(mPoolThreads) = ctorNumberOfPoolThreads

\* hardware_concurrency() returned 0 and six pool threads were started.
C33_Witness ==
    /\ ctorNumThreads = 0
    /\ hardwareConcurrency = 0
    /\ ctorPc = "constructed"
    /\ Len(mPoolThreads) = 6

\* ------------------------------------------------------------------------
\* The size of a tile against the target
\* ------------------------------------------------------------------------
\* The cells a processData call covers.
CellsOfCall(call) == (call.endX - call.startX) * (call.endY - call.startY)

\* C34: after setTiling, mCellsPerTileX is at most targetCellsPerTile and
\* mCellsPerTileX * mCellsPerTileY is below twice targetCellsPerTile; no tile
\* and no processData call, collapsed to one row or not, covers as many as
\* twice the target number of cells.
C34_TileBelowTwiceTarget ==
    LET target == TargetCellsPerTile(tTask, tTarget)
    IN  /\ tpc \in {"tiled", "called"} =>
              /\ tTask.mCellsPerTileX <= target
              /\ tTask.mCellsPerTileX * tTask.mCellsPerTileY < 2 * target
              /\ \A i \in 0..(TileCount(tTask) - 1) :
                     Area(TileRect(tTask, i)) < 2 * target
        /\ tpc = "called" => CellsOfCall(tCall) < 2 * target

\* A one-row call that covers more cells than the target.
C34_Witness ==
    /\ tpc = "called"
    /\ tCall = OneRowCall(tTask, TileRect(tTask, tTile))
    /\ tCall.endY = tCall.startY + 1
    /\ CellsOfCall(tCall) > TargetCellsPerTile(tTask, tTarget)
    /\ tTask.mCellsPerTileY > 1

\* ------------------------------------------------------------------------
\* The end of processTilesOfWork, and the locks held during tile work
\* ------------------------------------------------------------------------
\* Thread t is inside the loop of processTilesOfWork.
InLoop(t) ==
    pc[t] \in {"ptw_lock", "ptw_wait", "ptw_blocked", "ptw_while", "ptw_tile",
               "ptw_callback", "ptw_relock", "ptw_done", "ptw_test", "ptw_notify"}

\* C35: a pool thread has left processTilesOfWork only if mStopThreads is
\* set, so that until then every pool thread is inside the loop, where it
\* goes past the wait only when there is a tile to start; a caller leaves the
\* loop only in a state where mTilesNotYetStarted is 0 or mStopThreads is set.
C35_PoolThreadsLeaveOnlyOnStop ==
    /\ [](\A t \in StartedPoolThreads :
             /\ pc[t] = "exited" => mStopThreads
             /\ ~mStopThreads => InLoop(t))
    /\ [][\A t \in StartedPoolThreads :
             /\ (pc[t] # "exited" /\ pc'[t] = "exited") => mStopThreads
             /\ (pc[t] = "ptw_wait" /\ pc'[t] = "ptw_while") => mTilesNotYetStarted > 0]_vars
    /\ [][\A c \in Callers :
             (InLoop(c) /\ pc'[c] = "wf_lock") =>
                 (mTilesNotYetStarted = 0 \/ mStopThreads)]_vars

\* A pool thread runs a tile of a doTask call made after an earlier call
\* has returned.
C35_Witness ==
    /\ ~mStopThreads
    /\ \E c \in Callers : calls[c] = 1
    /\ \E t \in StartedPoolThreads : InCallback(t) /\ pc[t] = "ptw_callback"

\* C36 as stated: no thread holds mQueueMutex or mTaskMutex while it executes
\* processTile.
C36_NoLockDuringTileWork ==
    \A t \in PoolThreads \cup Callers :
        (AtProcessTile(t) \/ InCallback(t)) => (mQueueMutex # t /\ mTaskMutex # t)

\* C36, amended: no thread holds mQueueMutex while it executes processTile and
\* no pool thread holds mTaskMutex; the thread that called doTask holds
\* mTaskMutex during the tiles it executes itself, and during the tiles the
\* pool threads execute for it.
C36_OnlyTaskMutexOfCaller ==
    /\ \A t \in PoolThreads \cup Callers :
          (AtProcessTile(t) \/ InCallback(t)) => mQueueMutex # t
    /\ \A t \in PoolThreads : mTaskMutex # t
    /\ \A c \in Callers : (AtProcessTile(c) \/ InCallback(c)) => mTaskMutex = c
    /\ \A t \in PoolThreads :
          InCallback(t) => (mTaskMutex \in Callers /\ cb[t].task = TaskOf(mTaskMutex))

\* A caller and a pool thread execute tiles of the caller's task at the same
\* time.
C36_Witness ==
    \E c \in Callers, t \in StartedPoolThreads :
        /\ pc[c] = "ptw_callback"
        /\ pc[t] = "ptw_callback"
        /\ cb[t].task = TaskOf(c)
        /\ cb[c].task = TaskOf(c)
        /\ mTaskMutex = c

\* ------------------------------------------------------------------------
\* Rejected arguments of the Toolkit methods (specification ToolkitSpec)
\* ------------------------------------------------------------------------
\* The method has returned without building a Task and without calling
\* doTask: no Task, no callback, mTaskMutex not taken, the counters and
\* mCurrentTask as they were.
ReturnedBeforeDoTask ==
    /\ tpc \in {"rejected", "rejected_argument"}
    /\ tTask = NoTaskObject
    /\ tCall = NoCall
    /\ \A t \in Threads : cb[t] = NoCallback
    /\ mTaskMutex = NoThread
    /\ mQueueMutex = NoThread
    /\ mTilesNotYetStarted = 0
    /\ mTilesInProcess = 0
    /\ mCurrentTask = NoTask

\* The method validates its restriction.
ValidatesRestriction == entry.method \in {"blend", "histogram", "blur"}

\* C31: when validRestriction rejects the restriction, the method returns
\* without building a Task or calling doTask, and nothing follows: no
\* callback runs, mTaskMutex is not taken, the counters and mCurrentTask are
\* unchanged.
C31_RejectedRestrictionReturns ==
    /\ []((/\ ValidatesRestriction
            /\ ~validRestriction(entry.sizeX, entry.sizeY, entry.restriction)
            /\ tpc # "entry")
              => (tpc = "rejected" /\ ReturnedBeforeDoTask))
    /\ [][tpc = "rejected" => UNCHANGED vars]_vars

\* histogram has returned on a restriction that validRestriction rejects.
C31_Witness ==
    /\ entry.method = "histogram"
    /\ entry.vectorSize = 4
    /\ entry.restriction # NoRestriction
    /\ ~validRestriction(entry.sizeX, entry.sizeY, entry.restriction)
    /\ tpc = "rejected"

\* The radius and the vectorSize that blur documents and tests.
ValidBlurArguments(e) ==
    /\ ~(e.radius <= 0 \/ e.radius > 25)
    /\ ~(e.vectorSize # 1 /\ e.vectorSize # 4)

\* C32: blur returns without building a BlurTask or calling doTask when the
\* radius is outside 1..25 or the vectorSize is neither 1 nor 4.
C32_BlurRejectsBadArguments ==
    (entry.method = "blur" /\ ~ValidBlurArguments(entry) /\ tpc # "entry")
        => ReturnedBeforeDoTask

====
